---- MODULE Spec2Model ----
(***************************************************************************)
(* A model of the moneyline pick service: the two prediction engines       *)
(* (MLPredictionEngine in prediction_engine.py, ComplexPredictionEngine in *)
(* prediction_engine_simple.py), the FeatureEngineer and the provider's    *)
(* APIRateLimiter.                                                         *)
(*                                                                         *)
(* Numbers.  TLC has integers only, so every float of the program is kept  *)
(* in a fixed unit:                                                        *)
(*   confidence          hundredths of a point  (60.0  is 6000)            *)
(*   team ratings        ComplexPredictionEngine: tenths (109.4 is 1094)   *)
(*   win rates, form     hundredths             (0.5   is 50)              *)
(*   injury impact       thousandths            (0.15  is 150)             *)
(*   weather impact      hundredths             (-0.1  is -10)             *)
(*   expected value      MLPredictionEngine: an exact fraction [n, d];     *)
(*                       ComplexPredictionEngine: ten-thousandths, the     *)
(*                       unit round(x, 4) leaves                           *)
(* An Optional value is <<>> for None and <<v>> for a value v.             *)
(***************************************************************************)
EXTENDS Integers, Sequences, FiniteSets, TLC

VARIABLES
    engine,       \* which engine object was constructed: "ml", "complex", "none"
    sports_api,   \* the engine's self.sports_api: "None" until initialised
    request,      \* the MLRequest handed to generate_pick (its games are enriched in place)
    fault,        \* where an exception is raised while the request is processed
    team_hash,    \* hash(team_name) % 100 in this process, for every team name
    responses,    \* what each generate_pick call on this request ended with
    lastAccepted, \* the sides _analyze_pick_option accepted in the last call
    lastChoice,   \* the candidates the last call chose from
    call_times,   \* APIRateLimiter.call_times
    clock,        \* the wall clock, in seconds
    released,     \* when the last calls of wait_if_needed returned
    sleeping,     \* the call of wait_if_needed that is in time.sleep, if any
    feInput,      \* the game (and team stats, injected failures) given to process_game_features
    feOutput,     \* what process_game_features ended with
    selInput,     \* the candidate list given to _select_best_pick
    selOutput,    \* the candidate _select_best_pick returned
    fnArgs,       \* the arguments of a helper method called on its own
    fnResult      \* what that call returned

vars == <<engine, sports_api, request, fault, team_hash, responses, lastAccepted, lastChoice,
          call_times, clock, released, sleeping, feInput, feOutput, selInput, selOutput,
          fnArgs, fnResult>>

engineVars  == <<engine, sports_api, request, fault, team_hash, responses, lastAccepted,
                 lastChoice>>
limiterVars == <<call_times, clock, released, sleeping>>
featureVars == <<feInput, feOutput>>
selectVars  == <<selInput, selOutput>>
helperVars  == <<fnArgs, fnResult>>

-----------------------------------------------------------------------------
(* Bounds of the model *)

\* the longest batch of games in a request
MaxGames == 2
\* how many times generate_pick is called on the same request
MaxCalls == 2
\* the calls_per_minute the limiter is constructed with
CallsPerMinute == 2
\* the wall clock stops here, in seconds
MaxClock == 120
\* the longest candidate list given to _select_best_pick
MaxCandidates == 3

-----------------------------------------------------------------------------
(* Optional values and Python truthiness *)

None == <<>>
Some(v) == <<v>>

\* `x or default` on an Optional number: None and 0 are both falsy
OrDefault(opt, default) == IF opt = None \/ opt = Some(0) THEN default ELSE opt[1]

\* what the request's author means by an Optional threshold: the default only when absent
GivenOr(opt, default) == IF opt = None THEN default ELSE opt[1]

Abs(x) == IF x < 0 THEN -x ELSE x
Max2(a, b) == IF a >= b THEN a ELSE b
Min2(a, b) == IF a <= b THEN a ELSE b

RECURSIVE Gcd(_, _)
Gcd(a, b) == IF b = 0 THEN a ELSE Gcd(b, a % b)

\* the fraction n/d (d > 0) in lowest terms
Rat(n, d) ==
    LET g == Gcd(Abs(n), d)
    IN  [n |-> n \div g, d |-> d \div g]

RatLess(a, b) == a.n * b.d < b.n * a.d
RatLeq(a, b)  == a.n * b.d <= b.n * a.d

\* n/d rounded to the nearest integer, ties to even: Python's round()
RoundDiv(n, d) ==
    LET q == n \div d
        r == n % d
    IN  IF 2 * r < d THEN q
        ELSE IF 2 * r > d THEN q + 1
        ELSE IF q % 2 = 0 THEN q ELSE q + 1

\* the odds mapping of a game: each key is absent (None) or holds a number
Odds(h, a) == [home_ml |-> h, away_ml |-> a]

\* game.odds.get(key, 0)
OddsGet(odds, key) == IF odds[key] = None THEN 0 ELSE odds[key][1]

\* `not game.odds`: the mapping has no key at all
OddsEmpty(odds) == odds.home_ml = None /\ odds.away_ml = None

Sides == {"home", "away"}

OddsKey(side) == IF side = "home" THEN "home_ml" ELSE "away_ml"

TeamOf(game, side) == IF side = "home" THEN game.home_team ELSE game.away_team

\* f"{team} ML"
SelectionLabel(team) == <<team, "ML">>

\* F applied to the value of v, with v computed once
With(v, F(_)) == CHOOSE y \in {F(x) : x \in {v}} : TRUE

\* the elements of a sequence
Range(s) == {s[i] : i \in DOMAIN s}

RECURSIVE SumSeq(_)
SumSeq(s) == IF s = <<>> THEN 0 ELSE Head(s) + SumSeq(Tail(s))

RECURSIVE Pow(_, _)
Pow(b, e) == IF e = 0 THEN 1 ELSE b * Pow(b, e - 1)

-----------------------------------------------------------------------------
(* The games and provider records the model draws its inputs from *)

NoWeather == None
Weather(t, w, p, dir) ==
    Some([temperature |-> t, wind_speed |-> w, precipitation |-> p, wind_direction |-> dir])

\* an injury description string, kept as the two things the code looks for in it
InjuryText(pos, st) == [position |-> pos, status |-> st]

GameKC ==
    [start_time |-> "2026-01-11T18:00", home_team |-> "Chiefs", away_team |-> "Bills", league |-> "NFL",
     odds |-> Odds(Some(115), Some(-105)),
     venue |-> None, weather |-> NoWeather, injuries |-> None]

GameLAL ==
    [start_time |-> "2026-01-11T20:30", home_team |-> "Lakers", away_team |-> "Celtics", league |-> "NBA",
     odds |-> Odds(Some(-125), Some(105)),
     venue |-> Some("Crypto.com Arena"), weather |-> NoWeather,
     injuries |-> Some(<<InjuryText("PG", "Out")>>)]

GameGB ==
    [start_time |-> "2026-01-12T13:00", home_team |-> "Packers", away_team |-> "Bears", league |-> "NFL",
     odds |-> Odds(None, None),
     venue |-> Some("Lambeau Field"), weather |-> NoWeather, injuries |-> None]

GameNYY ==
    [start_time |-> "2026-01-12T19:05", home_team |-> "Yankees", away_team |-> "Red Sox", league |-> "MLB",
     odds |-> Odds(Some(-250), Some(210)),
     venue |-> None, weather |-> NoWeather, injuries |-> None]

GamePool == {GameKC, GameLAL, GameGB, GameNYY}

Teams == UNION {{g.home_team, g.away_team} : g \in GamePool}

-----------------------------------------------------------------------------
(* FeatureEngineer (feature_engineering.py)                                *)
(* The model keeps the fields of the FeatureVector the engines and the     *)
(* claims read; `raises` is the set of feature groups in which an          *)
(* exception is raised.                                                    *)

FeatureGroups == {"odds", "team", "context"}

RatAdd(a, b) == Rat(a.n * b.d + b.n * a.d, a.d * b.d)

RatOne == [n |-> 1, d |-> 1]

\* American odds to implied probability
_odds_to_probability(odds) ==
    IF odds > 0 THEN Rat(100, odds + 100) ELSE Rat(Abs(odds), Abs(odds) + 100)

_extract_odds_features(game, raises) ==
    IF "odds" \in raises
    THEN [primary_odds |-> 0, efficiency |-> RatOne, movement |-> 0]
    ELSE LET home_ml == OddsGet(game.odds, "home_ml")
             away_ml == OddsGet(game.odds, "away_ml")
             total_prob == RatAdd(_odds_to_probability(home_ml), _odds_to_probability(away_ml))
         IN  IF home_ml # 0 /\ away_ml # 0
             THEN [primary_odds |-> home_ml,
                   efficiency |-> IF total_prob.n > 0 THEN total_prob ELSE RatOne,
                   movement |-> 0]
             ELSE [primary_odds |-> 0, efficiency |-> RatOne, movement |-> 0]

_calculate_head_to_head == 50

_get_default_team_features ==
    [home_win_rate |-> Some(50), away_win_rate |-> Some(50),
     home_offensive_rating |-> 10000, home_defensive_rating |-> 10000,
     home_net_rating |-> 0,
     away_offensive_rating |-> 10000, away_defensive_rating |-> 10000,
     away_net_rating |-> 0,
     offensive_matchup_advantage |-> 0, defensive_matchup_advantage |-> 0,
     home_pace |-> 10000, away_pace |-> 10000, pace_differential |-> 0,
     h2h_record |-> _calculate_head_to_head]

\* ratings come in whole points and leave in hundredths; the situational
\* ratings are the plain ones times 1.05 or 0.95
_calculate_efficiency_metrics(home_stats, away_stats) ==
    [home_offensive_rating |-> 100 * home_stats.offensive_rating,
     home_defensive_rating |-> 100 * home_stats.defensive_rating,
     home_net_rating |-> 100 * (home_stats.offensive_rating - home_stats.defensive_rating),
     away_offensive_rating |-> 100 * away_stats.offensive_rating,
     away_defensive_rating |-> 100 * away_stats.defensive_rating,
     away_net_rating |-> 100 * (away_stats.offensive_rating - away_stats.defensive_rating),
     offensive_matchup_advantage |->
         105 * home_stats.offensive_rating - 105 * away_stats.defensive_rating,
     defensive_matchup_advantage |->
         95 * away_stats.offensive_rating - 95 * home_stats.defensive_rating,
     home_pace |-> 100 * home_stats.pace,
     away_pace |-> 100 * away_stats.pace,
     pace_differential |-> 100 * Abs(home_stats.pace - away_stats.pace)]

\* team_stats is None or a mapping from team names to statistics records
_calculate_team_features(game, team_stats, raises) ==
    IF "team" \in raises THEN _get_default_team_features
    ELSE IF team_stats = None THEN _get_default_team_features
    ELSE LET stats == team_stats[1]
         IN  IF game.home_team \in DOMAIN stats /\ game.away_team \in DOMAIN stats
             THEN LET home_stats == stats[game.home_team]
                      away_stats == stats[game.away_team]
                      eff == _calculate_efficiency_metrics(home_stats, away_stats)
                  IN  [home_win_rate |-> home_stats.win_percentage,
                       away_win_rate |-> away_stats.win_percentage,
                       home_offensive_rating |-> eff.home_offensive_rating,
                       home_defensive_rating |-> eff.home_defensive_rating,
                       home_net_rating |-> eff.home_net_rating,
                       away_offensive_rating |-> eff.away_offensive_rating,
                       away_defensive_rating |-> eff.away_defensive_rating,
                       away_net_rating |-> eff.away_net_rating,
                       offensive_matchup_advantage |-> eff.offensive_matchup_advantage,
                       defensive_matchup_advantage |-> eff.defensive_matchup_advantage,
                       home_pace |-> eff.home_pace, away_pace |-> eff.away_pace,
                       pace_differential |-> eff.pace_differential,
                       h2h_record |-> _calculate_head_to_head]
             ELSE _get_default_team_features

\* weather impact in hundredths; precipitation is kept in hundredths of an inch
_calculate_advanced_weather_impact(weather_data, league) ==
    LET temp == weather_data.temperature
        wind_speed == weather_data.wind_speed
        precipitation == weather_data.precipitation
        nfl == (IF temp < 35 THEN -15 ELSE IF temp > 85 THEN -5 ELSE 0)
               + (IF wind_speed > 15 THEN -10 ELSE IF wind_speed > 25 THEN -20 ELSE 0)
               + (IF precipitation > 10 THEN -10 ELSE 0)
        wind_direction == weather_data.wind_direction
        mlb == (IF wind_speed > 10
                THEN IF 45 <= wind_direction /\ wind_direction <= 315 THEN -5 ELSE 5
                ELSE 0)
               + (IF temp > 80 THEN 3 ELSE IF temp < 50 THEN -3 ELSE 0)
        impact == IF league = "NFL" THEN nfl ELSE IF league = "MLB" THEN mlb ELSE 0
    IN  Max2(-30, Min2(30, impact))

\* The recent form before it is clamped, an exact fraction.  Game number i
\* (from 0) of the first ten weighs 0.9^i and counts
\* result * (1 + (opponent_rating / 100 - 1) * 0.5), ratings in whole points.
\* With L games the weights are scaled by 10^(L-1) to stay whole; a history
\* without a win scores 0 whatever the weights.
WeightedFormScore(recent_games) ==
    LET games == SubSeq(recent_games, 1, Min2(10, Len(recent_games)))
        L == Len(games)
        weight(i) == Pow(9, i - 1) * Pow(10, L - i)
        score(i) == IF games[i].result = "W" THEN 100 + games[i].opponent_rating ELSE 0
    IN  IF \A i \in 1..L : games[i].result # "W" THEN Rat(0, 1)
        ELSE Rat(SumSeq([i \in 1..L |-> score(i) * weight(i)]),
                 200 * SumSeq([i \in 1..L |-> weight(i)]))

\* FeatureEngineer._calculate_weighted_form: 0.5 for no games, else the score
\* held between 0.0 and 1.0
FE_calculate_weighted_form(recent_games) ==
    IF recent_games = <<>> THEN Rat(1, 2)
    ELSE LET form == WeightedFormScore(recent_games)
         IN  IF RatLess(RatOne, form) THEN RatOne
             ELSE IF form.n < 0 THEN Rat(0, 1) ELSE form

_estimate_travel_distance(game) ==
    IF game.venue = Some("Arrowhead Stadium") THEN 500
    ELSE IF game.venue = Some("Crypto.com Arena") THEN 800
    ELSE IF game.venue = Some("Lambeau Field") THEN 600
    ELSE 400

\* the impact of one injury description, in thousandths
InjuryTextImpact(inj, league) ==
    LET base ==
            IF league = "NFL"
            THEN IF inj.position = "QB" THEN -250
                 ELSE IF inj.position \in {"RB", "WR", "TE"} THEN -150
                 ELSE IF inj.position \in {"OL", "DL"} THEN -100
                 ELSE -50
            ELSE IF league = "NBA"
            THEN IF inj.position \in {"PG", "SG"} THEN -200
                 ELSE IF inj.position \in {"SF", "PF", "C"} THEN -150
                 ELSE -50
            ELSE -50
    IN  IF inj.status = "Out" THEN (base * 15) \div 10
        ELSE IF inj.status = "Doubtful" THEN (base * 12) \div 10
        ELSE IF inj.status = "Questionable" THEN (base * 8) \div 10
        ELSE base

\* the summed impact without the cap at -0.5
UncappedInjuryImpact(injuries, league) ==
    SumSeq([i \in DOMAIN injuries |-> InjuryTextImpact(injuries[i], league)])

_calculate_advanced_injury_impact(injuries, league) ==
    Max2(-500, SumSeq([i \in DOMAIN injuries |-> InjuryTextImpact(injuries[i], league)]))

_get_default_contextual_features ==
    [weather |-> None, rest_home |-> 3, rest_away |-> 3, travel |-> 0,
     injury_impact |-> None, motivation |-> None]

_extract_contextual_features(game, raises) ==
    IF "context" \in raises THEN _get_default_contextual_features
    ELSE [weather |-> IF game.weather # None
                      THEN Some(_calculate_advanced_weather_impact(game.weather[1], game.league))
                      ELSE None,
          rest_home |-> 3, rest_away |-> 2,
          travel |-> _estimate_travel_distance(game),
          injury_impact |-> IF game.injuries # None /\ game.injuries # Some(<<>>)
                            THEN Some(_calculate_advanced_injury_impact(game.injuries[1], game.league))
                            ELSE None,
          motivation |-> Some(0)]

_get_default_feature_vector ==
    [odds_value |-> 0, odds_movement |-> None, market_efficiency |-> Some(RatOne),
     home_win_rate |-> 50, away_win_rate |-> 50, head_to_head_record |-> None,
     recent_form_home |-> 50, recent_form_away |-> 50,
     home_offensive_rating |-> 10000, home_defensive_rating |-> 10000,
     home_net_rating |-> 0,
     away_offensive_rating |-> 10000, away_defensive_rating |-> 10000,
     away_net_rating |-> 0,
     offensive_matchup_advantage |-> 0, defensive_matchup_advantage |-> 0,
     home_pace |-> 10000, away_pace |-> 10000, pace_differential |-> 0,
     rest_days_home |-> None, rest_days_away |-> None, travel_distance |-> None,
     weather_impact |-> None, injury_impact |-> None, motivation_factor |-> None]

\* The construction of the vector from the three groups.  FeatureVector(...)
\* rejects a win rate of None (the two win rates are required floats): the
\* result is None when the constructor raises.
FeatureVector(odds_features, team_features, context_features) ==
        IF team_features.home_win_rate = None \/ team_features.away_win_rate = None
        THEN None
        ELSE Some(
             [odds_value |-> odds_features.primary_odds,
              odds_movement |-> Some(odds_features.movement),
              market_efficiency |-> Some(odds_features.efficiency),
              home_win_rate |-> team_features.home_win_rate[1],
              away_win_rate |-> team_features.away_win_rate[1],
              head_to_head_record |-> Some(team_features.h2h_record),
              recent_form_home |-> 50, recent_form_away |-> 50,
              home_offensive_rating |-> team_features.home_offensive_rating,
              home_defensive_rating |-> team_features.home_defensive_rating,
              home_net_rating |-> team_features.home_net_rating,
              away_offensive_rating |-> team_features.away_offensive_rating,
              away_defensive_rating |-> team_features.away_defensive_rating,
              away_net_rating |-> team_features.away_net_rating,
              offensive_matchup_advantage |-> team_features.offensive_matchup_advantage,
              defensive_matchup_advantage |-> team_features.defensive_matchup_advantage,
              home_pace |-> team_features.home_pace,
              away_pace |-> team_features.away_pace,
              pace_differential |-> team_features.pace_differential,
              rest_days_home |-> Some(context_features.rest_home),
              rest_days_away |-> Some(context_features.rest_away),
              travel_distance |-> Some(context_features.travel),
              weather_impact |-> context_features.weather,
              injury_impact |-> context_features.injury_impact,
              motivation_factor |-> context_features.motivation])

\* a featuriser that gives up every group as soon as one group fails
AllOrNothingFeatures(game, team_stats, raises) ==
    LET feature_vector ==
            FeatureVector(_extract_odds_features(game, {}),
                          _calculate_team_features(game, team_stats, {}),
                          _extract_contextual_features(game, {}))
    IN  IF raises # {} \/ feature_vector = None THEN _get_default_feature_vector
        ELSE feature_vector[1]

process_game_features(game, team_stats, raises) ==
    LET feature_vector ==
            FeatureVector(_extract_odds_features(game, raises),
                          _calculate_team_features(game, team_stats, raises),
                          _extract_contextual_features(game, raises))
    IN  IF feature_vector = None THEN _get_default_feature_vector ELSE feature_vector[1]

-----------------------------------------------------------------------------
(* Where an exception is raised while a request is processed *)

NoFault == [game |-> 0, at |-> "none"]

\* the providers _enhance_game_data asks: odds_api, weather_api, sports_api
Providers == {"odds", "weather", "injuries"}

FaultAt(flt, i, kind) == flt.game = i /\ flt.at = kind

\* an outcome of generate_pick that is an exception reaching the caller
Raised(error) == [kind |-> "raised", error |-> error]

-----------------------------------------------------------------------------
(* The provider collaborators of MLPredictionEngine (external_apis.py) *)

\* OddsAPI.get_odds_for_game: the mock odds of the league
_get_mock_odds(league) ==
    IF league = "NFL" THEN Odds(Some(-115), Some(-105))
    ELSE IF league = "NBA" THEN Odds(Some(-120), Some(100))
    ELSE Odds(Some(-110), Some(-110))

\* the lower-cased words of the venue names of the pool: `keyword in venue.lower()`
VenueWords(venue) ==
    IF venue = "Crypto.com Arena" THEN {"crypto.com", "arena"}
    ELSE IF venue = "Lambeau Field" THEN {"lambeau", "field"}
    ELSE IF venue = "Arrowhead Stadium" THEN {"arrowhead", "stadium"}
    ELSE {}

\* WeatherAPI.get_weather_for_venue: the mock weather of the venue's city
_get_mock_weather(venue) ==
    IF VenueWords(venue) \cap {"green bay", "buffalo", "chicago"} # {} THEN Weather(28, 12, 0, 270)
    ELSE IF VenueWords(venue) \cap {"miami", "tampa", "phoenix"} # {} THEN Weather(78, 6, 0, 180)
    ELSE Weather(55, 8, 0, 225)

\* SportsDataAPI._calculate_injury_impact: "High", "Medium" or "Low"
API_calculate_injury_impact(position, status, league) ==
    LET high == IF league = "NFL" THEN {"QB", "RB", "WR"}
                ELSE IF league = "NBA" THEN {"PG", "C"}
                ELSE IF league = "MLB" THEN {"P", "C"} ELSE {"C", "G"}
        medium == IF league = "NFL" THEN {"TE", "OL", "DL", "LB"}
                  ELSE IF league = "NBA" THEN {"SG", "SF", "PF"}
                  ELSE IF league = "MLB" THEN {"1B", "SS", "OF"} ELSE {"LW", "RW", "D"}
        base_impact == IF position \in high THEN "High"
                       ELSE IF position \in medium THEN "Medium" ELSE "Low"
    IN  IF status = "Probable" THEN "Low"
        ELSE IF status = "Questionable" /\ base_impact = "High" THEN "Medium"
        ELSE IF status = "Out"
             THEN IF base_impact \in {"High", "Medium"} THEN "High" ELSE "Medium"
        ELSE base_impact

\* SportsDataAPI.get_injury_report without an API key: the mock report of the
\* team, 1 to 4 entries read off the team's hash
_get_enhanced_mock_injuries(h, league) ==
    LET positions == IF league = "NBA" THEN <<"PG", "SG", "SF", "PF", "C">>
                     ELSE IF league = "MLB" THEN <<"P", "C", "1B", "2B", "3B", "SS", "OF">>
                     ELSE IF league = "NHL" THEN <<"C", "LW", "RW", "D", "G">>
                     ELSE <<"QB", "RB", "WR", "TE", "OL", "DL", "LB", "CB", "S", "K">>
        statuses == <<"Out", "Doubtful", "Questionable", "Probable">>
    IN  [n \in 1..((h % 4) + 1) |->
            LET position == positions[((h + n - 1) % Len(positions)) + 1]
                status == statuses[((h + n - 1) % 4) + 1]
            IN  [position |-> position, status |-> status,
                 impact |-> API_calculate_injury_impact(position, status, league)]]

\* what _enhance_game_data keeps of a report: "player (status)" for the
\* entries whose impact is "High"; the string does not name the position
HighImpactInjuries(report) ==
    LET high == SelectSeq(report, LAMBDA inj : inj.impact = "High")
    IN  [n \in DOMAIN high |-> InjuryText("", high[n].status)]

-----------------------------------------------------------------------------
(* MLPredictionEngine (prediction_engine.py) *)

ML_min_confidence_threshold == 6000
ML_min_odds_threshold == -200
ML_max_odds_threshold == 300
\* expected_value_threshold = 0.05
ML_expected_value_threshold == [n |-> 1, d |-> 20]

_is_outdoor_venue(venue) ==
    ~ \E keyword \in {"dome", "indoor", "arena", "center"} : keyword \in VenueWords(venue)

\* the three fields of _enhance_game_data and whether it asks a provider for them
NeedsOdds(game) == OddsEmpty(game.odds)
NeedsWeather(game) ==
    game.venue # None /\ game.weather = None /\ _is_outdoor_venue(game.venue[1])
NeedsInjuries(game) == game.injuries = None \/ game.injuries = Some(<<>>)

\* an enrichment that asks the weather provider whenever the venue is outdoor
RefreshGameData(game, hashes, raises) ==
    IF game.venue # None /\ _is_outdoor_venue(game.venue[1])
    THEN [game EXCEPT !.weather = _get_mock_weather(game.venue[1])]
    ELSE game

\* The game is enriched in place, odds first, then weather, then injuries.
\* `raises` names the provider whose call raises ("none": no provider does);
\* the except clause returns the game as enriched up to that call.
_enhance_game_data(game, hashes, raises) ==
    LET g1 == IF NeedsOdds(game)
              THEN [game EXCEPT !.odds = _get_mock_odds(game.league)]
              ELSE game
        g2 == IF NeedsWeather(g1)
              THEN [g1 EXCEPT !.weather = _get_mock_weather(g1.venue[1])]
              ELSE g1
    IN  IF NeedsOdds(game) /\ raises = "odds" THEN game
        ELSE IF NeedsWeather(g1) /\ raises = "weather" THEN g1
        ELSE IF NeedsInjuries(g2) /\ raises = "injuries" THEN g2
        ELSE IF NeedsInjuries(g2)
        THEN [g2 EXCEPT !.injuries =
                  Some(HighImpactInjuries(
                           _get_enhanced_mock_injuries(hashes[g2.home_team], g2.league)
                           \o _get_enhanced_mock_injuries(hashes[g2.away_team], g2.league)))]
        ELSE g2

ML_odds_in_range(odds, req) ==
    LET min_odds == OrDefault(req.min_odds, ML_min_odds_threshold)
        max_odds == OrDefault(req.max_odds, ML_max_odds_threshold)
    IN  min_odds <= odds /\ odds <= max_odds

\* The 16 model inputs, or None when building them raises: the code reads
\* features.strength_of_schedule, and a FeatureVector has no such field.
_features_to_array(features, selection) ==
    IF "strength_of_schedule" \notin DOMAIN features THEN None
    ELSE Some(<<features.odds_value,
                OrDefault(features.odds_movement, 0),
                IF features.market_efficiency = None THEN RatOne ELSE features.market_efficiency[1],
                features.home_win_rate,
                features.away_win_rate,
                OrDefault(features.head_to_head_record, 50),
                features.recent_form_home,
                features.recent_form_away,
                OrDefault(features.rest_days_home, 3),
                OrDefault(features.rest_days_away, 3),
                OrDefault(features.travel_distance, 0),
                OrDefault(features.weather_impact, 0),
                features.strength_of_schedule,
                OrDefault(features.injury_impact, 0),
                OrDefault(features.motivation_factor, 0),
                IF selection = "home" THEN 1 ELSE 0>>)

\* a heuristic that scores the side asked about: the away side gets the complement
HeuristicForSelection(features) ==
    LET home_win_rate == IF Len(features) > 3 THEN features[4] ELSE 50
        away_win_rate == IF Len(features) > 4 THEN features[5] ELSE 50
        home_prob == Max2(100, Min2(900, 500 + 3 * (home_win_rate - away_win_rate)))
    IN  [win_prob |-> IF Len(features) > 15 /\ features[16] = 0
                      THEN 1000 - home_prob ELSE home_prob,
         confidence |-> 4000,
         feature_importance |-> [team_strength |-> 60, odds_value |-> 40]]

\* win probability in thousandths, confidence in hundredths of a point; an
\* array too short to hold a win rate counts as 0.5
_heuristic_prediction(features) ==
    LET home_win_rate == IF Len(features) > 3 THEN features[4] ELSE 50
        away_win_rate == IF Len(features) > 4 THEN features[5] ELSE 50
        win_prob == 500 + 3 * (home_win_rate - away_win_rate)
    IN  [win_prob |-> Max2(100, Min2(900, win_prob)),
         confidence |-> 4000,
         feature_importance |-> [team_strength |-> 60, odds_value |-> 40]]

\* no trained model is loaded: the fallback model is absent or unfit
_predict_fallback(features) == _heuristic_prediction(features)

\* an expected value that takes the decimal odds for the profit on a win
ExpectedValueOfDecimalOdds(win_probability, odds) ==
    IF odds = 0 THEN Rat(0, 1)
    ELSE IF odds > 0
    THEN Rat(win_probability * (odds + 100) - 100 * (1000 - win_probability), 100000)
    ELSE Rat((100 + Abs(odds)) * win_probability - (1000 - win_probability) * Abs(odds),
             1000 * Abs(odds))

\* win_probability in thousandths; the result is the exact fraction.  Odds of
\* 0 divide by zero, and the except clause returns 0.0.
ML_calculate_expected_value(win_probability, odds) ==
    IF odds = 0 THEN Rat(0, 1)
    ELSE IF odds > 0
    THEN Rat(win_probability * odds - 100 * (1000 - win_probability), 100000)
    ELSE Rat(100 * win_probability - (1000 - win_probability) * Abs(odds), 1000 * Abs(odds))

\* a trained model that is sure of every side it is asked about
ConfidentPrediction(features, selection, odds) ==
    [win_probability |-> 600, confidence_score |-> 7000,
     expected_value |-> ML_calculate_expected_value(600, odds),
     feature_importance |-> [team_strength |-> 60, odds_value |-> 40],
     model_version |-> "1.0.0"]

_make_prediction(features, selection, odds) ==
    LET feature_array == _features_to_array(features, selection)
    IN  IF feature_array = None
        THEN [win_probability |-> 500, confidence_score |-> 5000,
              expected_value |-> Rat(0, 1), feature_importance |-> <<>>,
              model_version |-> "fallback"]
        ELSE LET p == _predict_fallback(feature_array[1])
             IN  [win_probability |-> p.win_prob, confidence_score |-> p.confidence,
                  expected_value |-> ML_calculate_expected_value(p.win_prob, odds),
                  feature_importance |-> p.feature_importance,
                  model_version |-> "1.0.0"]

_humanize_feature_name(feature_name) ==
    IF feature_name = "odds_value" THEN "Betting Odds Analysis"
    ELSE IF feature_name = "team_strength" THEN "Team Strength"
    ELSE feature_name

\* the names of a feature_importance map, the most important first
RECURSIVE ByImportance(_)
ByImportance(importance) ==
    IF DOMAIN importance = {} THEN <<>>
    ELSE LET top == CHOOSE f \in DOMAIN importance :
                        \A o \in DOMAIN importance : importance[o] <= importance[f]
         IN  <<top>> \o ByImportance([f \in DOMAIN importance \ {top} |-> importance[f]])

\* The top_factors of the rationale: the three most important features by
\* name.  Rationale(top_factors=[]) is rejected (min_items=1), and the except
\* clause then gives the three generic factors.
_generate_rationale(prediction) ==
    LET ranked == ByImportance(prediction.feature_importance)
        top_factors == SubSeq(ranked, 1, Min2(3, Len(ranked)))
        factor_names == [k \in DOMAIN top_factors |-> _humanize_feature_name(top_factors[k])]
    IN  IF factor_names = <<>>
        THEN <<"Statistical Analysis", "Team Performance", "Market Conditions">>
        ELSE factor_names

\* None, or the candidate; `raises` says scoring this side raises
ML_analyze_pick_option(game, selection, features, req, raises) ==
    LET odds == OddsGet(game.odds, OddsKey(selection))
        prediction == _make_prediction(features, selection, odds)
    IN  IF raises THEN None
        ELSE IF odds = 0 \/ ~ML_odds_in_range(odds, req) THEN None
        ELSE IF prediction.confidence_score
                    < OrDefault(req.min_confidence, ML_min_confidence_threshold) THEN None
        ELSE Some([side |-> selection,
                   selection |-> SelectionLabel(TeamOf(game, selection)),
                   league |-> game.league,
                   odds |-> odds,
                   prediction |-> prediction,
                   top_factors |-> _generate_rationale(prediction)])

_is_viable_candidate(candidate, req) ==
    /\ ~(candidate.prediction.confidence_score
             < OrDefault(req.min_confidence, ML_min_confidence_threshold))
    /\ ~RatLess(candidate.prediction.expected_value, ML_expected_value_threshold)
    /\ ML_odds_in_range(candidate.odds, req)

\* the sort key of _select_best_pick: (expected_value, confidence_score)
KeyLess(a, b) ==
    \/ RatLess(a.prediction.expected_value, b.prediction.expected_value)
    \/ /\ a.prediction.expected_value = b.prediction.expected_value
       /\ a.prediction.confidence_score < b.prediction.confidence_score

\* list.sort(key=..., reverse=True) is stable: equal keys keep their order
RECURSIVE InsertDescending(_, _)
InsertDescending(x, s) ==
    IF s = <<>> THEN <<x>>
    ELSE IF KeyLess(Head(s), x) THEN <<x>> \o s
    ELSE <<Head(s)>> \o InsertDescending(x, Tail(s))

RECURSIVE SortDescending(_)
SortDescending(s) ==
    IF s = <<>> THEN <<>>
    ELSE InsertDescending(s[Len(s)], SortDescending(SubSeq(s, 1, Len(s) - 1)))

\* a selection rule that looks at the confidence alone
SelectByConfidence(candidates) ==
    IF candidates = <<>> THEN None
    ELSE Some(CHOOSE c \in Range(candidates) :
                  \A o \in Range(candidates) :
                      o.prediction.confidence_score <= c.prediction.confidence_score)

\* None when the list is empty (the code raises ValueError), else the first after sorting
_select_best_pick(candidates) ==
    IF candidates = <<>> THEN None ELSE Some(Head(SortDescending(candidates)))

_create_response(pick) ==
    [kind |-> "pick", selection |-> pick.selection, league |-> pick.league,
     odds |-> pick.odds,
     confidence |-> pick.prediction.confidence_score,
     expected_value |-> pick.prediction.expected_value,
     top_factors |-> pick.top_factors,
     model_version |-> pick.prediction.model_version]

\* a fallback that answers a request without games with a placeholder pick
FallbackWithoutGames(games) ==
    IF games = <<>>
    THEN [kind |-> "pick", selection |-> SelectionLabel("Home"), league |-> "NFL",
          odds |-> -110, confidence |-> 5000, expected_value |-> Rat(0, 1),
          top_factors |-> <<"Default Selection">>, model_version |-> "emergency"]
    ELSE [kind |-> "pick", selection |-> SelectionLabel(games[1].home_team),
          league |-> games[1].league,
          odds |-> IF games[1].odds.home_ml = None THEN -110 ELSE games[1].odds.home_ml[1],
          confidence |-> 5000, expected_value |-> Rat(0, 1),
          top_factors |-> <<"Default Selection">>, model_version |-> "emergency"]

\* the first game whose home odds are between -150 and 150, else the first game
_generate_fallback_pick(games) ==
    LET reasonable == {i \in DOMAIN games :
                           LET home_odds == OddsGet(games[i].odds, "home_ml")
                           IN  home_odds # 0 /\ -150 <= home_odds /\ home_odds <= 150}
    IN  IF reasonable # {}
        THEN LET i == CHOOSE k \in reasonable : \A o \in reasonable : k <= o
             IN  [kind |-> "pick", selection |-> SelectionLabel(games[i].home_team),
                  league |-> games[i].league,
                  odds |-> OddsGet(games[i].odds, "home_ml"),
                  confidence |-> 5500, expected_value |-> Rat(1, 100),
                  top_factors |-> <<"Home Field Advantage", "Odds Value", "Risk Management">>,
                  model_version |-> "fallback"]
        ELSE IF games # <<>>
        THEN [kind |-> "pick", selection |-> SelectionLabel(games[1].home_team),
              league |-> games[1].league,
              odds |-> IF games[1].odds.home_ml = None THEN -110 ELSE games[1].odds.home_ml[1],
              confidence |-> 5000, expected_value |-> Rat(0, 1),
              top_factors |-> <<"Default Selection">>,
              model_version |-> "emergency"]
        ELSE Raised("ValueError")

\* a candidate, with the number of its game in the batch
OfGame(i, c) ==
    [game |-> i, side |-> c.side, selection |-> c.selection, league |-> c.league,
     odds |-> c.odds, prediction |-> c.prediction, top_factors |-> c.top_factors]

\* One pass of the loop body of _analyze_all_games on game number i: the game
\* as enriched in place, the sides _analyze_pick_option accepted, the viable
\* candidates, and whether the body was left by the except clause.
ML_analyze_game(i, game, req, flt) ==
    With(_enhance_game_data(game, team_hash,
                            IF flt.game = i /\ flt.at \in Providers THEN flt.at ELSE "none"),
         LAMBDA enhanced_game :
    With(process_game_features(enhanced_game, None, {}), LAMBDA features :
    With(ML_analyze_pick_option(enhanced_game, "home", features, req, FaultAt(flt, i, "home"))
         \o ML_analyze_pick_option(enhanced_game, "away", features, req, FaultAt(flt, i, "away")),
         LAMBDA options :
    With([k \in DOMAIN options |-> OfGame(i, options[k])], LAMBDA accepted :
        IF FaultAt(flt, i, "features")
        THEN [game |-> enhanced_game, accepted |-> <<>>, candidates |-> <<>>, raised |-> TRUE]
        ELSE [game |-> enhanced_game,
              accepted |-> accepted,
              candidates |-> SelectSeq(accepted, LAMBDA c : _is_viable_candidate(c, req)),
              raised |-> FALSE]))))

\* a loop that gives up the batch at the first game whose analysis raises
RECURSIVE AnalyzeUntilFirstError(_, _, _, _)
AnalyzeUntilFirstError(i, games, req, flt) ==
    IF i > Len(games) THEN [games |-> <<>>, accepted |-> <<>>, candidates |-> <<>>]
    ELSE With(ML_analyze_game(i, games[i], req, flt), LAMBDA r :
             IF r.raised
             THEN [games |-> <<r.game>> \o SubSeq(games, i + 1, Len(games)),
                   accepted |-> <<>>, candidates |-> <<>>]
             ELSE With(AnalyzeUntilFirstError(i + 1, games, req, flt), LAMBDA rest :
                      [games |-> <<r.game>> \o rest.games,
                       accepted |-> r.accepted \o rest.accepted,
                       candidates |-> r.candidates \o rest.candidates]))

\* the loop of _analyze_all_games from game number i on: a game whose analysis
\* raises is logged and skipped
RECURSIVE _analyze_all_games(_, _, _, _)
_analyze_all_games(i, games, req, flt) ==
    IF i > Len(games) THEN [games |-> <<>>, accepted |-> <<>>, candidates |-> <<>>]
    ELSE With(ML_analyze_game(i, games[i], req, flt), LAMBDA r :
         With(_analyze_all_games(i + 1, games, req, flt), LAMBDA rest :
             [games |-> <<r.game>> \o rest.games,
              accepted |-> r.accepted \o rest.accepted,
              candidates |-> r.candidates \o rest.candidates]))

\* generate_pick: the request as it is left (games enriched), what the analysis
\* accepted and kept, and the outcome.  Every exception, the "no viable
\* candidates" ValueError included, ends in _generate_fallback_pick.
ML_generate_pick(req, flt) ==
    With(_analyze_all_games(1, req.games, req, flt), LAMBDA analysis :
        [request |-> [req EXCEPT !.games = analysis.games],
         accepted |-> Range(analysis.accepted),
         candidates |-> analysis.candidates,
         response |-> IF analysis.candidates = <<>>
                      THEN _generate_fallback_pick(analysis.games)
                      ELSE _create_response(_select_best_pick(analysis.candidates)[1])])

-----------------------------------------------------------------------------------------------------------------------------------------------------
(* The provider of ComplexPredictionEngine.  A team's data is what           *)
(* get_team_stats, get_injury_report and get_recent_games return: ratings in *)
(* tenths of a point, injuries as [impact, status], recent games as          *)
(* [result, opponent_rating], most recent first.                             *)

ProviderInjury(impact, status) == [impact |-> impact, status |-> status]
RecentGame(result, rating) == [result |-> result, opponent_rating |-> rating]

TeamRecord(off, def, injuries, recent) ==
    [offensive_rating |-> off, defensive_rating |-> def,
     injuries |-> injuries, recent_games |-> recent]

\* SimpleSportsAPI: base_strength in hundredths, the team's own for the names
\* the mock knows and read off the hash otherwise
_get_enhanced_team_stats(team_name, h) ==
    LET base_strength == IF team_name \in {"Chiefs", "Lakers"} THEN 80
                         ELSE IF team_name \in {"Packers", "Celtics"} THEN 75
                         ELSE IF team_name = "Bills" THEN 72
                         ELSE h
    IN  [offensive_rating |-> 950 + 2 * base_strength,
         defensive_rating |-> 1150 - 2 * base_strength]

\* SimpleSportsAPI: 1 to 3 injuries read off the hash
_get_enhanced_injuries(h) ==
    LET statuses == <<"Out", "Doubtful", "Questionable", "Probable">>
        impacts == <<"High", "Medium", "Low">>
    IN  [n \in 1..((h % 3) + 1) |->
            ProviderInjury(impacts[((h + n - 1) % 3) + 1], statuses[((h + n - 1) % 4) + 1])]

\* SimpleSportsAPI: the last 10 games read off the hash; game i (from 0) is won
\* when game_hash % 100 < (0.5 + (team_strength - opponent_strength) * 0.3) * 100
_get_enhanced_recent_games(h) ==
    [n \in 1..10 |->
        LET game_hash == (h + n - 1) % 100
        IN  RecentGame(IF 10 * game_hash < 500 + 3 * (h - game_hash) THEN "W" ELSE "L",
                       950 + 2 * game_hash)]

\* a provider a caller has put in self.sports_api: any plain records
InjectedData(team) ==
    IF team = "Chiefs" THEN TeamRecord(1250, 750, <<>>, <<>>)
    ELSE IF team = "Bills" THEN TeamRecord(1250, 750, <<>>, <<RecentGame("W", 600)>>)
    ELSE IF team = "Lakers" THEN TeamRecord(1150, 1050, <<>>, <<>>)
    ELSE IF team = "Celtics"
         THEN TeamRecord(1100, 1000, <<ProviderInjury("Low", "Probable")>>, <<>>)
    ELSE IF team = "Packers" THEN TeamRecord(1100, 950, <<>>, <<RecentGame("L", 1000)>>)
    ELSE IF team = "Bears" THEN TeamRecord(950, 1050, <<ProviderInjury("High", "Out")>>, <<>>)
    ELSE IF team = "Yankees" THEN TeamRecord(1100, 1000, <<>>, <<>>)
    ELSE TeamRecord(1050, 950, <<>>, <<>>)

\* what self.sports_api answers for a team
TeamData(api, team, hashes) ==
    IF api = "SimpleSportsAPI"
    THEN LET stats == _get_enhanced_team_stats(team, hashes[team])
         IN  TeamRecord(stats.offensive_rating, stats.defensive_rating,
                        _get_enhanced_injuries(hashes[team]),
                        _get_enhanced_recent_games(hashes[team]))
    ELSE InjectedData(team)

-----------------------------------------------------------------------------
(* ComplexPredictionEngine (prediction_engine_simple.py) *)

CX_min_confidence_threshold == 6000
CX_min_odds_threshold == -200
CX_max_odds_threshold == 300

\* what _initialize_apis leaves in self.sports_api
_initialize_apis == "SimpleSportsAPI"

\* the request is not consulted: the engine's own thresholds decide
CX_odds_in_range(odds) ==
    odds # 0 /\ CX_min_odds_threshold <= odds /\ odds <= CX_max_odds_threshold

\* Recent form in hundredths.  Game number i (from 0) weighs 0.9^i and counts
\* result * (0.5 + opponent_rating / 200).  With L games the weights are
\* scaled by 10^(L-1) to stay whole.  A history without a win has a weighted
\* score of 0 whatever the weights; the other histories of the model are
\* short and give a whole number of hundredths.
_calculate_weighted_form(recent_games) ==
    IF recent_games = <<>> THEN 50
    ELSE LET games == SubSeq(recent_games, 1, Min2(10, Len(recent_games)))
             L == Len(games)
             weight(i) == Pow(9, i - 1) * Pow(10, L - i)
             score(i) == IF games[i].result = "W" THEN 1000 + games[i].opponent_rating ELSE 0
             weighted_score == SumSeq([i \in 1..L |-> score(i) * weight(i)])
             total_weight == SumSeq([i \in 1..L |-> weight(i)])
         IN  IF \A i \in 1..L : games[i].result # "W" THEN 0
             ELSE RoundDiv(weighted_score, 20 * total_weight)

\* injury impact in thousandths, capped at 0.5
CX_calculate_injury_impact(injuries) ==
    LET base_impact(inj) == IF inj.impact = "High" THEN 150
                            ELSE IF inj.impact = "Medium" THEN 80 ELSE 30
        status_mult(inj) == IF inj.status = "Out" THEN 10
                            ELSE IF inj.status = "Doubtful" THEN 8
                            ELSE IF inj.status = "Questionable" THEN 4 ELSE 1
        total_impact == SumSeq([i \in DOMAIN injuries |->
                                   (base_impact(injuries[i]) * status_mult(injuries[i])) \div 10])
    IN  IF injuries = <<>> THEN 0 ELSE Min2(500, total_impact)

\* weather impact in hundredths
CX_calculate_weather_impact(weather) ==
    LET temp == weather.temperature
        wind == weather.wind_speed
        precip == weather.precipitation
        impact == (IF temp < 32 THEN -10 ELSE IF temp > 90 THEN -5 ELSE 0)
                  + (IF wind > 15 THEN -8 ELSE IF wind > 10 THEN -3 ELSE 0)
                  + (IF precip > 10 THEN -10 ELSE 0)
    IN  Max2(-20, Min2(10, impact))

\* home advantage in hundredths of a point
_calculate_home_advantage(league, venue) ==
    LET base == IF league = "NFL" THEN 300
                ELSE IF league = "NBA" THEN 250
                ELSE IF league \in {"MLB", "NHL"} THEN 200 ELSE 250
    IN  IF venue # None
           /\ \E keyword \in {"arrowhead", "lambeau", "centurylink"} :
                  keyword \in VenueWords(venue[1])
        THEN base + 100 ELSE base

\* the metrics a reader gets from an empty dict: every analysis.get(key, default)
NoMetrics ==
    [home_off_rating |-> 1000, home_def_rating |-> 1000,
     away_off_rating |-> 1000, away_def_rating |-> 1000,
     home_form |-> 50, away_form |-> 50,
     home_injury_impact |-> 0, away_injury_impact |-> 0,
     off_matchup_adv |-> 0, def_matchup_adv |-> 0,
     weather_impact |-> 0, home_advantage |-> 300]

\* `raises` says the computation raises: the except clause returns {}
_calculate_advanced_metrics(game, home, away, raises) ==
    IF raises THEN NoMetrics
    ELSE [home_off_rating |-> home.offensive_rating,
          home_def_rating |-> home.defensive_rating,
          away_off_rating |-> away.offensive_rating,
          away_def_rating |-> away.defensive_rating,
          home_form |-> _calculate_weighted_form(home.recent_games),
          away_form |-> _calculate_weighted_form(away.recent_games),
          home_injury_impact |-> CX_calculate_injury_impact(home.injuries),
          away_injury_impact |-> CX_calculate_injury_impact(away.injuries),
          off_matchup_adv |-> home.offensive_rating - away.defensive_rating,
          def_matchup_adv |-> away.offensive_rating - home.defensive_rating,
          weather_impact |-> IF game.weather # None /\ game.league = "NFL"
                             THEN CX_calculate_weather_impact(game.weather[1]) ELSE 0,
          home_advantage |-> _calculate_home_advantage(game.league, game.venue)]

\* the confidence before it is clamped, in hundredths of a point
ConfidenceTotal(side, analysis, odds) ==
    LET strength_diff == IF side = "home"
                         THEN analysis.home_off_rating - analysis.away_def_rating
                         ELSE analysis.away_off_rating - analysis.home_def_rating
        form_diff == IF side = "home"
                     THEN analysis.home_form - analysis.away_form
                     ELSE analysis.away_form - analysis.home_form
        injury_diff == IF side = "home"
                       THEN analysis.away_injury_impact - analysis.home_injury_impact
                       ELSE analysis.home_injury_impact - analysis.away_injury_impact
        base_confidence == IF side = "home"
                           THEN 5000 + analysis.home_advantage
                           ELSE 5000 - analysis.home_advantage
        odds_adjustment == IF Abs(odds) > 200 THEN -500
                           ELSE IF 100 <= Abs(odds) /\ Abs(odds) <= 150 THEN 500 ELSE 0
        \* (strength_diff / 10) * 2 points; form_diff * 20; injury_diff * 10; weather * 5
        total == base_confidence + 2 * strength_diff + 20 * form_diff + injury_diff
                 + 5 * analysis.weather_impact + odds_adjustment
    IN  total

\* a confidence that is not clamped
UnclampedConfidence(side, analysis, odds, raises) ==
    IF raises THEN 6000 ELSE ConfidenceTotal(side, analysis, odds)

\* Confidence in hundredths of a point.  `raises` says the computation raises
\* (a value of the analysis, or the odds, is not a number): the except clause
\* returns 60.0.
_calculate_complex_confidence(side, analysis, odds, raises) ==
    IF raises THEN 6000
    ELSE Max2(5000, Min2(9500, ConfidenceTotal(side, analysis, odds)))

\* expected value in ten-thousandths: round(our_prob * payout - (1 - our_prob), 4)
CX_calculate_expected_value(odds, confidence) ==
    IF odds > 0
    THEN RoundDiv(confidence * odds - 100 * (10000 - confidence), 100)
    ELSE RoundDiv(100 * confidence - (10000 - confidence) * Abs(odds), Abs(odds))

\* The top_factors of a side: the factors that apply, then the three filler
\* labels while fewer than three are there, cut to five.  (home_advantage is
\* read with default 0 here and 3 in the confidence: neither exceeds 3.)
_generate_detailed_reasoning(side, analysis, confidence, ev) ==
    LET own == IF side = "home"
               THEN (IF analysis.home_form > 60 THEN <<"Strong Recent Form">> ELSE <<>>)
                    \o (IF analysis.off_matchup_adv > 50
                        THEN <<"Offensive Matchup Advantage">> ELSE <<>>)
                    \o (IF analysis.home_advantage > 300
                        THEN <<"Strong Home Field Advantage">> ELSE <<>>)
               ELSE (IF analysis.away_form > 60 THEN <<"Excellent Road Form">> ELSE <<>>)
                    \o (IF analysis.def_matchup_adv < -50
                        THEN <<"Defensive Matchup Advantage">> ELSE <<>>)
        injury == IF Abs(analysis.home_injury_impact - analysis.away_injury_impact) > 50
                  THEN <<"Injury Impact Differential">> ELSE <<>>
        value == IF ev > 500 THEN <<"Positive Expected Value">> ELSE <<>>
        found == own \o injury \o value
        top_factors == IF Len(found) < 3
                       THEN found \o <<"Advanced Analytics", "Statistical Modeling",
                                       "Market Analysis">>
                       ELSE found
    IN  SubSeq(top_factors, 1, Min2(5, Len(top_factors)))

\* None, or the analysis of the side; `raises` says analysing this side raises
CX_analyze_pick_option(game, side, analysis, raises) ==
    LET odds == OddsGet(game.odds, OddsKey(side))
        confidence == _calculate_complex_confidence(side, analysis, odds, FALSE)
    IN  IF raises THEN None
        ELSE IF ~CX_odds_in_range(odds) THEN None
        ELSE IF confidence < CX_min_confidence_threshold THEN None
        ELSE Some([side |-> side,
                   selection |-> SelectionLabel(TeamOf(game, side)),
                   league |-> game.league,
                   odds |-> odds,
                   confidence |-> confidence,
                   expected_value |-> CX_calculate_expected_value(odds, confidence),
                   top_factors |-> _generate_detailed_reasoning(
                                       side, analysis, confidence,
                                       CX_calculate_expected_value(odds, confidence))])

\* an analysis, with the number of its game in the batch
CX_OfGame(i, a) ==
    [game |-> i, side |-> a.side, selection |-> a.selection, league |-> a.league,
     odds |-> a.odds, confidence |-> a.confidence, expected_value |-> a.expected_value,
     top_factors |-> a.top_factors]

\* The body of _analyze_game_comprehensively once self.sports_api is looked
\* at: the provider is asked for the two teams, the metrics are computed and
\* both sides analysed; of two accepted sides the home side is kept when its
\* expected value is the greater, else the away side.  Asking a provider that
\* is None, or a provider that raises, ends in the except clause: None.
CX_analyze_with(api, i, game, flt) ==
    With(_calculate_advanced_metrics(game, TeamData(api, game.home_team, team_hash),
                                     TeamData(api, game.away_team, team_hash),
                                     FaultAt(flt, i, "metrics")), LAMBDA analysis :
    With(CX_analyze_pick_option(game, "home", analysis, FaultAt(flt, i, "home")),
         LAMBDA home_analysis :
    With(CX_analyze_pick_option(game, "away", analysis, FaultAt(flt, i, "away")),
         LAMBDA away_analysis :
    With(IF home_analysis # None /\ away_analysis # None
         THEN IF home_analysis[1].expected_value > away_analysis[1].expected_value
              THEN home_analysis ELSE away_analysis
         ELSE IF home_analysis # None THEN home_analysis
         ELSE away_analysis, LAMBDA better :
        IF api = "None" \/ FaultAt(flt, i, "provider")
        THEN [accepted |-> <<>>, analysis |-> None]
        ELSE [accepted |-> [k \in DOMAIN (home_analysis \o away_analysis) |->
                               CX_OfGame(i, (home_analysis \o away_analysis)[k])],
              analysis |-> [k \in DOMAIN better |-> CX_OfGame(i, better[k])]]))))

\* an analysis that looks at self.sports_api before it initialises it
AnalyzeBeforeInitialize(api, i, game, flt) ==
    With(CX_analyze_with(api, i, game, flt), LAMBDA r :
        [sports_api |-> IF api = "None" THEN _initialize_apis ELSE api,
         accepted |-> r.accepted, analysis |-> r.analysis])

\* the provider is initialised on first use, then the game is analysed
_analyze_game_comprehensively(api, i, game, flt) ==
    With(IF api = "None" THEN _initialize_apis ELSE api, LAMBDA api1 :
    With(CX_analyze_with(api1, i, game, flt), LAMBDA r :
        [sports_api |-> api1, accepted |-> r.accepted, analysis |-> r.analysis]))

\* the loop of generate_pick from game number i on
RECURSIVE CX_analyze_games(_, _, _, _)
CX_analyze_games(api, i, games, flt) ==
    IF i > Len(games) THEN [sports_api |-> api, accepted |-> <<>>, game_analyses |-> <<>>]
    ELSE With(_analyze_game_comprehensively(api, i, games[i], flt), LAMBDA r :
         With(CX_analyze_games(r.sports_api, i + 1, games, flt), LAMBDA rest :
             [sports_api |-> rest.sports_api,
              accepted |-> r.accepted \o rest.accepted,
              game_analyses |-> r.analysis \o rest.game_analyses]))

\* expected_value * confidence / 100, in millionths
Score(a) == a.expected_value * a.confidence

\* max(game_analyses, key=...): the first of the analyses with the greatest key
MaxByScore(game_analyses) ==
    LET k == CHOOSE k \in DOMAIN game_analyses :
                 /\ \A j \in DOMAIN game_analyses : Score(game_analyses[j]) <= Score(game_analyses[k])
                 /\ \A j \in 1..(k - 1) : Score(game_analyses[j]) < Score(game_analyses[k])
    IN  game_analyses[k]

\* generate_pick: the provider as it is left, the sides accepted, the
\* per-game analyses, and the outcome.  The ValueError of an empty list of
\* analyses is logged and raised again.
CX_generate_pick(api, req, flt) ==
    With(CX_analyze_games(api, 1, req.games, flt), LAMBDA run :
        [sports_api |-> run.sports_api,
         accepted |-> Range(run.accepted),
         candidates |-> run.game_analyses,
         response |-> IF run.game_analyses = <<>>
                      THEN Raised("ValueError")
                      ELSE With(MaxByScore(run.game_analyses), LAMBDA best_analysis :
                               [kind |-> "pick", selection |-> best_analysis.selection,
                                league |-> best_analysis.league,
                                odds |-> best_analysis.odds,
                                confidence |-> best_analysis.confidence,
                                expected_value |-> best_analysis.expected_value,
                                top_factors |-> best_analysis.top_factors,
                                model_version |-> "2.0.0-complex"])])

-----------------------------------------------------------------------------
(* The requests of the model *)

Thresholds(lo, hi, conf) == [min_odds |-> lo, max_odds |-> hi, min_confidence |-> conf]

\* the request's three optional thresholds: the defaults written out, all
\* absent, a low min_confidence, each threshold at 0, favourites only, and
\* heavy favourites only
ThresholdPool ==
    {Thresholds(Some(-200), Some(300), Some(6000)),
     Thresholds(None, None, None),
     Thresholds(Some(-200), Some(300), Some(3000)),
     Thresholds(Some(0), Some(300), Some(3000)),
     Thresholds(Some(-200), Some(0), Some(3000)),
     Thresholds(Some(-200), Some(300), Some(0)),
     Thresholds(Some(-200), Some(-110), Some(6000)),
     Thresholds(Some(-300), Some(-200), Some(3000))}

Batches == UNION {[1..n -> GamePool] : n \in 1..MaxGames}

Requests ==
    {[games |-> gs, min_odds |-> t.min_odds, max_odds |-> t.max_odds,
      min_confidence |-> t.min_confidence] : gs \in Batches, t \in ThresholdPool}

\* hash(team_name) % 100 of the process: every team alike, or two kinds of
\* team.  The values are ones whose mock history has no win.
HashSame == [t \in Teams |-> 60]
HashMixed == [t \in Teams |-> IF t \in {"Chiefs", "Lakers", "Packers", "Yankees"} THEN 51 ELSE 60]
HashPool == {HashSame, HashMixed}

FaultKinds(e) ==
    IF e = "ml" THEN Providers \cup {"features", "home", "away"}
    ELSE {"provider", "metrics", "home", "away"}

Faults(e, req) ==
    {NoFault} \cup {[game |-> i, at |-> k] : i \in DOMAIN req.games, k \in FaultKinds(e)}

-----------------------------------------------------------------------------
(* The engines as a state machine: an engine is constructed, and             *)
(* generate_pick is called on it with the same request up to MaxCalls times. *)

LimiterIdle == call_times = <<>> /\ clock = 0 /\ released = <<>> /\ sleeping = None
FeaturesIdle == feInput = None /\ feOutput = None
SelectIdle == selInput = None /\ selOutput = None
HelperIdle == fnArgs = None /\ fnResult = None

Init ==
    /\ engine \in {"ml", "complex"}
    /\ sports_api \in IF engine = "ml" THEN {"SportsDataAPI"} ELSE {"None", "Injected"}
    /\ request \in Requests
    /\ fault \in Faults(engine, request)
    /\ team_hash \in IF sports_api = "Injected" THEN {HashSame} ELSE HashPool
    /\ responses = <<>>
    /\ lastAccepted = {}
    /\ lastChoice = <<>>
    /\ LimiterIdle /\ FeaturesIdle /\ SelectIdle /\ HelperIdle

MLPredictionEngine_generate_pick ==
    /\ engine = "ml"
    /\ Len(responses) < MaxCalls
    /\ \E r \in {ML_generate_pick(request, fault)} :
           /\ request' = r.request
           /\ responses' = Append(responses, r.response)
           /\ lastAccepted' = r.accepted
           /\ lastChoice' = r.candidates
    /\ UNCHANGED <<engine, sports_api, fault, team_hash,
                   limiterVars, featureVars, selectVars, helperVars>>

ComplexPredictionEngine_generate_pick ==
    /\ engine = "complex"
    /\ Len(responses) < MaxCalls
    /\ \E r \in {CX_generate_pick(sports_api, request, fault)} :
           /\ sports_api' = r.sports_api
           /\ responses' = Append(responses, r.response)
           /\ lastAccepted' = r.accepted
           /\ lastChoice' = r.candidates
    /\ UNCHANGED <<engine, request, fault, team_hash,
                   limiterVars, featureVars, selectVars, helperVars>>

Next ==
    \/ MLPredictionEngine_generate_pick
    \/ ComplexPredictionEngine_generate_pick

Spec == Init /\ [][Next]_vars

\* no engine is constructed
NoRequest == [games |-> <<>>, min_odds |-> None, max_odds |-> None, min_confidence |-> None]

EngineIdle ==
    /\ engine = "none" /\ sports_api = "None" /\ request = NoRequest /\ fault = NoFault
    /\ team_hash = HashSame /\ responses = <<>> /\ lastAccepted = {} /\ lastChoice = <<>>

-----------------------------------------------------------------------------
(* APIRateLimiter (external_apis.py): one limiter, called from one thread.   *)
(* Time is in whole seconds; between two calls the clock moves by one of     *)
(* TickSteps.                                                                *)

TickSteps == {10, 30}

SeqMin(s) == CHOOSE m \in Range(s) : \A o \in Range(s) : m <= o

\* the last n elements of a sequence
LastN(s, n) == IF Len(s) <= n THEN s ELSE SubSeq(s, Len(s) - n + 1, Len(s))

InitLimiter == EngineIdle /\ LimiterIdle /\ FeaturesIdle /\ SelectIdle /\ HelperIdle

\* a limiter that sleeps whenever a call was recorded in the last 60 seconds
WaitWheneverCalled(kept, now) ==
    IF kept # <<>> THEN 60 - (now - SeqMin(kept)) ELSE 0

\* wait_time, or 0 when the list is not full
WaitTime(kept, now) ==
    IF Len(kept) >= CallsPerMinute THEN 60 - (now - SeqMin(kept)) ELSE 0

\* time passes between two calls
Tick ==
    /\ sleeping = None
    /\ \E d \in TickSteps :
           /\ clock + d <= MaxClock
           /\ clock' = clock + d
    /\ UNCHANGED <<call_times, released, sleeping, engineVars, featureVars, selectVars,
                   helperVars>>

\* The whole call: the old entries are dropped, the caller sleeps when the
\* list is full, and the time of arrival is recorded.  `released` keeps when
\* the last CallsPerMinute + 1 calls returned.
APIRateLimiter_wait_if_needed ==
    LET now == clock
        kept == SelectSeq(call_times, LAMBDA call_time : now - call_time < 60)
        wait_time == WaitTime(kept, now)
        back == IF wait_time > 0 THEN now + wait_time ELSE now
    IN  /\ sleeping = None
        /\ back <= MaxClock
        /\ call_times' = Append(kept, now)
        /\ clock' = back
        /\ released' = LastN(Append(released, back), CallsPerMinute + 1)
        /\ UNCHANGED <<sleeping, engineVars, featureVars, selectVars, helperVars>>

NextLimiter ==
    \/ Tick
    \/ APIRateLimiter_wait_if_needed

SpecLimiter == InitLimiter /\ [][NextLimiter]_vars

\* The same call in two steps, for what happens while the caller is blocked:
\* the call prunes the list and either records the arrival and returns, or
\* goes to sleep; the sleeper wakes after wait_time, records the time it
\* arrived and returns.
APIRateLimiter_wait_if_needed_call ==
    LET now == clock
        kept == SelectSeq(call_times, LAMBDA call_time : now - call_time < 60)
        wait_time == WaitTime(kept, now)
    IN  /\ sleeping = None
        /\ now + Max2(wait_time, 0) <= MaxClock
        /\ IF wait_time > 0
           THEN /\ call_times' = kept
                /\ sleeping' = Some([since |-> now, until |-> now + wait_time])
                /\ UNCHANGED <<clock, released>>
           ELSE /\ call_times' = Append(kept, now)
                /\ released' = LastN(Append(released, now), CallsPerMinute + 1)
                /\ UNCHANGED <<clock, sleeping>>
        /\ UNCHANGED <<engineVars, featureVars, selectVars, helperVars>>

\* time.sleep(wait_time) is over
APIRateLimiter_wait_if_needed_wake ==
    /\ sleeping # None
    /\ clock' = sleeping[1].until
    /\ call_times' = Append(call_times, sleeping[1].since)
    /\ released' = LastN(Append(released, sleeping[1].until), CallsPerMinute + 1)
    /\ sleeping' = None
    /\ UNCHANGED <<engineVars, featureVars, selectVars, helperVars>>

NextLimiterSteps ==
    \/ Tick
    \/ APIRateLimiter_wait_if_needed_call
    \/ APIRateLimiter_wait_if_needed_wake

\* the sleep of a blocked caller ends: nothing else runs in its thread
SpecLimiterSteps ==
    InitLimiter /\ [][NextLimiterSteps]_vars /\ WF_vars(APIRateLimiter_wait_if_needed_wake)

-----------------------------------------------------------------------------
(* _select_best_pick on its own: any list of viable candidates *)

Candidate(team, ev, conf) ==
    [game |-> 1, side |-> "home", selection |-> SelectionLabel(team), league |-> "NFL",
     odds |-> 110,
     prediction |-> [win_probability |-> 600, confidence_score |-> conf,
                     expected_value |-> ev,
                     feature_importance |-> [team_strength |-> 60, odds_value |-> 40],
                     model_version |-> "1.0.0"],
     top_factors |-> <<"Team Strength", "Betting Odds Analysis">>]

\* viable candidates: expected value at least 0.05, confidence at least 60
CandidatePool ==
    {Candidate("Chiefs", Rat(1, 20), 8000), Candidate("Bills", Rat(1, 10), 6000),
     Candidate("Lakers", Rat(1, 10), 7000), Candidate("Celtics", Rat(3, 20), 6000),
     Candidate("Packers", Rat(3, 20), 6500), Candidate("Bears", Rat(1, 20), 6000)}

CandidateLists == UNION {[1..n -> CandidatePool] : n \in 0..MaxCandidates}

InitSelect == EngineIdle /\ LimiterIdle /\ FeaturesIdle /\ SelectIdle /\ HelperIdle

MLPredictionEngine_select_best_pick ==
    /\ \E candidates \in CandidateLists :
           /\ selInput' = Some(candidates)
           /\ selOutput' = _select_best_pick(candidates)
    /\ UNCHANGED <<engineVars, limiterVars, featureVars, helperVars>>

NextSelect == MLPredictionEngine_select_best_pick

SpecSelect == InitSelect /\ [][NextSelect]_vars

-----------------------------------------------------------------------------
(* process_game_features on its own: a game, team statistics or none, and   *)
(* the feature groups in which an exception is raised                       *)

GameSnow ==
    [GameGB EXCEPT !.odds = Odds(Some(-130), Some(110)), !.weather = Weather(28, 20, 15, 270)]

GameWind == [GameNYY EXCEPT !.weather = Weather(85, 12, 0, 90)]

FeatureGames == GamePool \cup {GameSnow, GameWind}

HomeTeams == {g.home_team : g \in GamePool}

TeamStatsOf(win_percentage, off, def, pace) ==
    [win_percentage |-> win_percentage, offensive_rating |-> off, defensive_rating |-> def,
     pace |-> pace]

\* statistics of every team
StatsFull ==
    [t \in Teams |-> IF t \in HomeTeams THEN TeamStatsOf(Some(65), 112, 104, 102)
                     ELSE TeamStatsOf(Some(45), 105, 108, 97)]

\* statistics of the home teams only
StatsPartial == [t \in HomeTeams |-> TeamStatsOf(Some(65), 112, 104, 102)]

\* statistics in which the away teams' win_percentage is None
StatsNoRate ==
    [t \in Teams |-> IF t \in HomeTeams THEN TeamStatsOf(Some(65), 112, 104, 102)
                     ELSE TeamStatsOf(None, 105, 108, 97)]

TeamStatsPool == {None, Some(StatsFull), Some(StatsPartial), Some(StatsNoRate)}

InitFeatures == EngineIdle /\ LimiterIdle /\ FeaturesIdle /\ SelectIdle /\ HelperIdle

FeatureEngineer_process_game_features ==
    /\ \E game \in FeatureGames, team_stats \in TeamStatsPool, raises \in SUBSET FeatureGroups :
           /\ feInput' = Some([game |-> game, team_stats |-> team_stats, raises |-> raises])
           /\ feOutput' = Some(process_game_features(game, team_stats, raises))
    /\ UNCHANGED <<engineVars, limiterVars, selectVars, helperVars>>

NextFeatures == FeatureEngineer_process_game_features

SpecFeatures == InitFeatures /\ [][NextFeatures]_vars

-----------------------------------------------------------------------------
(* Helper methods called on their own.  fnArgs names the method and holds   *)
(* its arguments, fnResult what it returned.                                *)

InitHelper == EngineIdle /\ LimiterIdle /\ FeaturesIdle /\ SelectIdle /\ HelperIdle

\* an analysis map as _calculate_advanced_metrics builds it
Metrics(off, def, form, injury, weather, advantage) ==
    [home_off_rating |-> off[1], home_def_rating |-> def[1],
     away_off_rating |-> off[2], away_def_rating |-> def[2],
     home_form |-> form[1], away_form |-> form[2],
     home_injury_impact |-> injury[1], away_injury_impact |-> injury[2],
     off_matchup_adv |-> off[1] - def[2], def_matchup_adv |-> off[2] - def[1],
     weather_impact |-> weather, home_advantage |-> advantage]

AnalysisPool ==
    {NoMetrics,
     Metrics(<<1300, 700>>, <<1300, 700>>, <<100, 0>>, <<0, 500>>, 0, 400),
     Metrics(<<950, 1150>>, <<1150, 950>>, <<20, 80>>, <<500, 0>>, -20, 200),
     Metrics(<<1110, 1090>>, <<1050, 1040>>, <<55, 45>>, <<30, 150>>, 0, 250),
     Metrics(<<1100, 1100>>, <<1000, 1000>>, <<50, 50>>, <<0, 0>>, -8, 300),
     Metrics(<<1050, 1120>>, <<1080, 1020>>, <<40, 62>>, <<80, 24>>, 0, 300)}

\* odds on both sides of every band the confidence looks at
ConfidenceOdds == {-250, -201, -200, -151, -150, -110, -100, 100, 125, 150, 151, 200, 201, 300}

ComplexPredictionEngine_calculate_complex_confidence ==
    /\ engine = "none"
    /\ \E side \in Sides, analysis \in AnalysisPool, odds \in ConfidenceOdds, raises \in BOOLEAN :
           /\ fnArgs' = Some([fn |-> "_calculate_complex_confidence", side |-> side,
                              analysis |-> analysis, odds |-> odds, raises |-> raises])
           /\ fnResult' = Some(_calculate_complex_confidence(side, analysis, odds, raises))
    /\ UNCHANGED <<engineVars, limiterVars, featureVars, selectVars>>

\* a game of the Yankees with the favourite at the edge of the odds range, at
\* the break-even line of a 60% pick, or out of range, at home or on the road
LineGames ==
    {[GameNYY EXCEPT !.odds = Odds(Some(line[1]), Some(line[2]))] :
        line \in {<<-200, 170>>, <<170, -200>>, <<-150, 130>>, <<-250, 210>>}}

ComplexPredictionEngine_analyze_pick_option ==
    /\ engine = "none"
    /\ \E game \in LineGames, side \in Sides, analysis \in AnalysisPool :
           /\ fnArgs' = Some([fn |-> "_analyze_pick_option", game |-> game, side |-> side,
                              analysis |-> analysis])
           /\ fnResult' = Some(CX_analyze_pick_option(game, side, analysis, FALSE))
    /\ UNCHANGED <<engineVars, limiterVars, featureVars, selectVars>>

\* the confidence computed on its own, or a complex engine serving a request
InitConfidence ==
    \/ InitHelper
    \/ Init /\ engine = "complex"

NextConfidence ==
    \/ ComplexPredictionEngine_calculate_complex_confidence
    \/ ComplexPredictionEngine_analyze_pick_option
    \/ ComplexPredictionEngine_generate_pick

SpecConfidence == InitConfidence /\ [][NextConfidence]_vars

\* American odds, 0 (no line) among them
OddsValues == {-400, -250, -150, -110, -105, -100, 0, 100, 105, 150, 210, 300}

\* win probabilities, in thousandths
Probabilities == {0, 200, 250, 300, 400, 500, 512, 600, 800, 1000}

\* win rates, in hundredths
WinRates == {0, 25, 45, 50, 65, 100}

\* a game's FeatureVector with the two win rates set, as an input array
FeatureArray(home_win_rate, away_win_rate, selection) ==
    <<-110, 0, RatOne, home_win_rate, away_win_rate, 50, 50, 50, 3, 2, 400, 0, 50, 0, 0,
      IF selection = "home" THEN 1 ELSE 0>>

FeatureArrays ==
    {FeatureArray(h, a, selection) : h \in WinRates, a \in WinRates, selection \in Sides}
        \cup {<<>>, <<-110, 0, RatOne, 65>>}

\* recent games, most recent first, opponent ratings in whole points
RecentGamesPool ==
    {<<>>,
     <<RecentGame("W", 120)>>,
     <<RecentGame("W", 100)>>,
     <<RecentGame("L", 110)>>,
     <<RecentGame("W", 80), RecentGame("L", 100)>>,
     <<RecentGame("W", 110), RecentGame("L", 90), RecentGame("W", 100)>>,
     <<RecentGame("L", 100), RecentGame("W", 90), RecentGame("W", 95), RecentGame("L", 105)>>,
     [i \in 1..12 |-> RecentGame("L", 100)]}

WeatherPool ==
    {Weather(t, w, p, 270)[1] : t \in {30, 70, 90}, w \in {5, 12, 20, 30}, p \in {0, 50}}

Leagues == {"NFL", "NBA", "MLB", "NHL"}

FeatureEngineer_odds_to_probability ==
    /\ \E odds \in OddsValues :
           /\ fnArgs' = Some([fn |-> "_odds_to_probability", odds |-> odds])
           /\ fnResult' = Some(_odds_to_probability(odds))
    /\ UNCHANGED <<engineVars, limiterVars, featureVars, selectVars>>

MLPredictionEngine_calculate_expected_value ==
    /\ \E win_probability \in Probabilities, odds \in OddsValues :
           /\ fnArgs' = Some([fn |-> "_calculate_expected_value",
                              win_probability |-> win_probability, odds |-> odds])
           /\ fnResult' = Some(ML_calculate_expected_value(win_probability, odds))
    /\ UNCHANGED <<engineVars, limiterVars, featureVars, selectVars>>

MLPredictionEngine_heuristic_prediction ==
    /\ \E features \in FeatureArrays :
           /\ fnArgs' = Some([fn |-> "_heuristic_prediction", features |-> features])
           /\ fnResult' = Some(_heuristic_prediction(features))
    /\ UNCHANGED <<engineVars, limiterVars, featureVars, selectVars>>

FeatureEngineer_calculate_weighted_form ==
    /\ \E recent_games \in RecentGamesPool :
           /\ fnArgs' = Some([fn |-> "_calculate_weighted_form", recent_games |-> recent_games])
           /\ fnResult' = Some(FE_calculate_weighted_form(recent_games))
    /\ UNCHANGED <<engineVars, limiterVars, featureVars, selectVars>>

FeatureEngineer_calculate_advanced_weather_impact ==
    /\ \E weather_data \in WeatherPool, league \in Leagues :
           /\ fnArgs' = Some([fn |-> "_calculate_advanced_weather_impact",
                              weather_data |-> weather_data, league |-> league])
           /\ fnResult' = Some(_calculate_advanced_weather_impact(weather_data, league))
    /\ UNCHANGED <<engineVars, limiterVars, featureVars, selectVars>>

\* What an HTTP request to a provider comes to: 200 with data for the team,
\* 200 with nothing for the team, 200 with a body that cannot be parsed, another
\* status, or an exception of the transport.
HttpOutcomes == {"data", "empty", "malformed", "status_500", "timeout"}

\* The configurations of SportsDataAPI: whether an API key is set, whether
\* the requests package was imported, and the outcome each provider would give.
ProviderSetups ==
    [api_key : BOOLEAN, requests : BOOLEAN, sportsdata : HttpOutcomes, espn : HttpOutcomes]

\* _get_sportsdata_team_stats, _get_sportsdata_injuries and
\* _get_sportsdata_recent_games: the data, or None; every exception is caught
\* inside.  `requested` says whether the HTTP request was made.
SportsDataFetch(setup) ==
    IF ~setup.requests \/ ~setup.api_key THEN [data |-> None, requested |-> {}]
    ELSE [data |-> IF setup.sportsdata = "data" THEN Some("sportsdata") ELSE None,
          requested |-> {"sportsdata"}]

\* _get_espn_team_stats: what ESPN answers is replaced by the mock statistics
\* (_parse_espn_team_data), and every exception is caught inside
EspnTeamStats(setup) ==
    IF ~setup.requests THEN [data |-> None, requested |-> {}]
    ELSE [data |-> IF setup.espn \in {"data", "empty", "malformed"} THEN Some("mock") ELSE None,
          requested |-> {"espn"}]

\* The three public methods.  Each answers [raised, data, requested]: the
\* data is the provider's or the mock data.
get_team_stats(setup) ==
    LET sportsdata_stats == IF setup.api_key THEN SportsDataFetch(setup)
                            ELSE [data |-> None, requested |-> {}]
        espn_stats == EspnTeamStats(setup)
    IN  IF sportsdata_stats.data # None
        THEN [raised |-> FALSE, data |-> sportsdata_stats.data[1],
              requested |-> sportsdata_stats.requested]
        ELSE [raised |-> FALSE, data |-> "mock",
              requested |-> sportsdata_stats.requested \cup espn_stats.requested]

\* get_injury_report without its try/except: the call of self._get_espn_injuries,
\* a method SportsDataAPI does not have, raises AttributeError
InjuryReportUnhandled(setup) ==
    LET sportsdata_injuries == IF setup.api_key THEN SportsDataFetch(setup)
                               ELSE [data |-> None, requested |-> {}]
    IN  IF sportsdata_injuries.data # None
        THEN [raised |-> FALSE, data |-> sportsdata_injuries.data[1],
              requested |-> sportsdata_injuries.requested]
        ELSE [raised |-> TRUE, data |-> "AttributeError",
              requested |-> sportsdata_injuries.requested]

\* the except clause answers the AttributeError with the mock injuries
get_injury_report(setup) ==
    LET sportsdata_injuries == IF setup.api_key THEN SportsDataFetch(setup)
                               ELSE [data |-> None, requested |-> {}]
    IN  IF sportsdata_injuries.data # None
        THEN [raised |-> FALSE, data |-> sportsdata_injuries.data[1],
              requested |-> sportsdata_injuries.requested]
        ELSE [raised |-> FALSE, data |-> "mock",
              requested |-> sportsdata_injuries.requested]

\* _get_espn_recent_games makes no request: it returns the mock games
get_recent_games(setup) ==
    LET sportsdata_games == IF setup.api_key THEN SportsDataFetch(setup)
                            ELSE [data |-> None, requested |-> {}]
    IN  IF sportsdata_games.data # None
        THEN [raised |-> FALSE, data |-> sportsdata_games.data[1],
              requested |-> sportsdata_games.requested]
        ELSE [raised |-> FALSE, data |-> "mock", requested |-> sportsdata_games.requested]

\* games with and without odds, weather, an outdoor venue and injuries
EnhanceGames ==
    FeatureGames \cup {[GameGB EXCEPT !.injuries = Some(<<InjuryText("QB", "Out")>>)],
                       [GameKC EXCEPT !.venue = Some("Arrowhead Stadium")]}

MLPredictionEngine_enhance_game_data ==
    /\ \E game \in EnhanceGames, hashes \in HashPool, raises \in Providers \cup {"none"} :
           /\ fnArgs' = Some([fn |-> "_enhance_game_data", game |-> game,
                              hashes |-> hashes, raises |-> raises])
           /\ fnResult' = Some(_enhance_game_data(game, hashes, raises))
    /\ UNCHANGED <<engineVars, limiterVars, featureVars, selectVars>>

\* the outcome is None when AttributeError is raised
MLPredictionEngine_features_to_array ==
    /\ \E game \in FeatureGames, team_stats \in TeamStatsPool, selection \in Sides :
           /\ fnArgs' = Some([fn |-> "_features_to_array",
                              features |-> process_game_features(game, team_stats, {}),
                              selection |-> selection])
           /\ fnResult' = Some(_features_to_array(process_game_features(game, team_stats, {}),
                                                  selection))
    /\ UNCHANGED <<engineVars, limiterVars, featureVars, selectVars>>

SportsDataAPI_get_team_stats ==
    /\ \E setup \in ProviderSetups :
           /\ fnArgs' = Some([fn |-> "get_team_stats", setup |-> setup])
           /\ fnResult' = Some(get_team_stats(setup))
    /\ UNCHANGED <<engineVars, limiterVars, featureVars, selectVars>>

SportsDataAPI_get_injury_report ==
    /\ \E setup \in ProviderSetups :
           /\ fnArgs' = Some([fn |-> "get_injury_report", setup |-> setup])
           /\ fnResult' = Some(get_injury_report(setup))
    /\ UNCHANGED <<engineVars, limiterVars, featureVars, selectVars>>

SportsDataAPI_get_recent_games ==
    /\ \E setup \in ProviderSetups :
           /\ fnArgs' = Some([fn |-> "get_recent_games", setup |-> setup])
           /\ fnResult' = Some(get_recent_games(setup))
    /\ UNCHANGED <<engineVars, limiterVars, featureVars, selectVars>>

\* injury reports of up to three descriptions
InjuryReports ==
    {<<>>}
        \cup {<<InjuryText(pos, st)>> : pos \in {"QB", "WR", "OL", "PG", "SF", "K"},
                                        st \in {"Out", "Doubtful", "Questionable", "Probable"}}
        \cup {<<InjuryText("QB", "Out"), InjuryText(pos, st)>> :
                  pos \in {"WR", "PG"}, st \in {"Out", "Probable"}}
        \cup {<<InjuryText("PG", "Out"), InjuryText("SF", "Out"), InjuryText("QB", "Doubtful")>>}

\* raises: an entry of the list is not a string, and the except clause answers
FeatureEngineer_calculate_advanced_injury_impact ==
    /\ \E injuries \in InjuryReports, league \in Leagues, raises \in BOOLEAN :
           /\ raises => injuries # <<>>
           /\ fnArgs' = Some([fn |-> "_calculate_advanced_injury_impact",
                              injuries |-> injuries, league |-> league, raises |-> raises])
           /\ fnResult' = Some(IF raises THEN -100
                                ELSE _calculate_advanced_injury_impact(injuries, league))
    /\ UNCHANGED <<engineVars, limiterVars, featureVars, selectVars>>

NextHelper ==
    \/ FeatureEngineer_odds_to_probability
    \/ MLPredictionEngine_calculate_expected_value
    \/ MLPredictionEngine_heuristic_prediction
    \/ FeatureEngineer_calculate_weighted_form
    \/ FeatureEngineer_calculate_advanced_weather_impact
    \/ FeatureEngineer_calculate_advanced_injury_impact
    \/ SportsDataAPI_get_team_stats
    \/ SportsDataAPI_get_injury_report
    \/ SportsDataAPI_get_recent_games
    \/ MLPredictionEngine_enhance_game_data
    \/ MLPredictionEngine_features_to_array

SpecHelper == InitHelper /\ [][NextHelper]_vars

-----------------------------------------------------------------------------
(* handler.do_POST (route.py): the JSON body is validated by MLRequest and   *)
(* handed to MLPredictionEngine.generate_pick.  The engines are also called  *)
(* on request objects that did not pass through MLRequest's validation.      *)
(* A behaviour is one call.                                                  *)

\* games whose odds mapping holds a 0 entry
GameNoHomeLine == [GameKC EXCEPT !.odds = Odds(Some(0), Some(-105))]
GameNoAwayLine == [GameNYY EXCEPT !.odds = Odds(Some(-250), Some(0))]

RouteGames == GamePool \cup {GameNoHomeLine, GameNoAwayLine}

\* A JSON body: the games, the numbers of the games whose home_ml entry is a
\* text and not a number, and the thresholds.
RequestBodies ==
    {[games |-> gs, non_numeric |-> nn, thresholds |-> t] :
        gs \in UNION {[1..n -> RouteGames] : n \in 0..MaxGames},
        nn \in {{}, {1}},
        t \in {Thresholds(Some(-200), Some(300), Some(6000)),
               Thresholds(Some(-300), Some(300), Some(3000))}}

\* MLRequest(**request_data): None when pydantic raises ValidationError, for
\* an empty games list (min_items=1) or an odds value that is not a float
MLRequest(request_data) ==
    IF request_data.games = <<>> THEN None
    ELSE IF request_data.non_numeric \cap DOMAIN request_data.games # {} THEN None
    ELSE Some([games |-> request_data.games,
               min_odds |-> request_data.thresholds.min_odds,
               max_odds |-> request_data.thresholds.max_odds,
               min_confidence |-> request_data.thresholds.min_confidence])

\* the request object built without validation (MLRequest.construct, models_simple)
UnvalidatedRequest(request_data) ==
    [games |-> request_data.games,
     min_odds |-> request_data.thresholds.min_odds,
     max_odds |-> request_data.thresholds.max_odds,
     min_confidence |-> request_data.thresholds.min_confidence]

\* do_POST: ValidationError is a ValueError and is answered with 400, as is a
\* ValueError out of generate_pick; any other exception with 500
do_POST(request_data) ==
    With(MLRequest(request_data), LAMBDA ml_request :
        IF ml_request = None THEN [status |-> 400, body |-> Raised("ValueError")]
        ELSE With(ML_generate_pick(ml_request[1], NoFault).response, LAMBDA response :
                 IF response.kind = "pick" THEN [status |-> 200, body |-> response]
                 ELSE IF response.error = "ValueError" THEN [status |-> 400, body |-> response]
                 ELSE [status |-> 500, body |-> response]))

handler_do_POST ==
    /\ fnArgs = None
    /\ \E request_data \in RequestBodies :
           /\ fnArgs' = Some([fn |-> "do_POST", request_data |-> request_data])
           /\ fnResult' = Some(do_POST(request_data))
    /\ UNCHANGED <<engineVars, limiterVars, featureVars, selectVars>>

\* generate_pick of either engine on a request object that was not validated
GeneratePickUnvalidated ==
    /\ fnArgs = None
    /\ \E request_data \in RequestBodies, e \in {"ml", "complex"} :
           /\ request_data.non_numeric = {}
           /\ fnArgs' = Some([fn |-> "generate_pick", engine |-> e, request_data |-> request_data])
           /\ fnResult' =
                  Some(IF e = "ml"
                       THEN ML_generate_pick(UnvalidatedRequest(request_data), NoFault).response
                       ELSE CX_generate_pick("None", UnvalidatedRequest(request_data), NoFault).response)
    /\ UNCHANGED <<engineVars, limiterVars, featureVars, selectVars>>

MLPredictionEngine_generate_fallback_pick ==
    /\ fnArgs = None
    /\ \E request_data \in RequestBodies :
           /\ request_data.non_numeric = {}
           /\ fnArgs' = Some([fn |-> "_generate_fallback_pick", request_data |-> request_data])
           /\ fnResult' = Some(_generate_fallback_pick(UnvalidatedRequest(request_data).games))
    /\ UNCHANGED <<engineVars, limiterVars, featureVars, selectVars>>

NextRoute ==
    \/ handler_do_POST
    \/ GeneratePickUnvalidated
    \/ MLPredictionEngine_generate_fallback_pick

SpecRoute == InitHelper /\ [][NextRoute]_vars


-----------------------------------------------------------------------------
(* The properties.  A property about generate_pick reads the outcome of the  *)
(* last call next to what that call accepted and chose from.                 *)

LastResponse == responses[Len(responses)]

\* the request's thresholds as its author gives them: the default only when absent
GivenMinOdds(default) == GivenOr(request.min_odds, default)
GivenMaxOdds(default) == GivenOr(request.max_odds, default)
GivenMinConfidence(default) == GivenOr(request.min_confidence, default)

\* C1: MLPredictionEngine.generate_pick, on a request with at least one game
\* in which no (game, side) candidate is viable, raises the no-viable-candidate
\* error and returns no pick.
C1_RaisesWhenNoCandidateIsViable ==
    (engine = "ml" /\ responses # <<>> /\ request.games # <<>> /\ lastChoice = <<>>)
        => LastResponse.kind = "raised"

\* the response is the candidate, as ComplexPredictionEngine reports it
CX_IsResponseOf(a, response) ==
    /\ response.kind = "pick"
    /\ response.selection = a.selection
    /\ response.odds = a.odds
    /\ response.confidence = a.confidence
    /\ response.expected_value = a.expected_value

CX_ConfidenceOf(i, side) ==
    LET game == request.games[i]
    IN  _calculate_complex_confidence(
            side,
            _calculate_advanced_metrics(game, TeamData(sports_api, game.home_team, team_hash),
                                        TeamData(sports_api, game.away_team, team_hash), FALSE),
            OddsGet(game.odds, OddsKey(side)), FALSE)

\* the side passes the request's confidence and odds filters
CX_PassesRequestFilters(i, side) ==
    LET odds == OddsGet(request.games[i].odds, OddsKey(side))
    IN  /\ odds # 0
        /\ GivenMinOdds(CX_min_odds_threshold) <= odds
        /\ odds <= GivenMaxOdds(CX_max_odds_threshold)
        /\ CX_ConfidenceOf(i, side) >= GivenMinConfidence(CX_min_confidence_threshold)

\* C3: ComplexPredictionEngine.generate_pick, on a batch of two games in which
\* exactly one (game, side) passes the request's min_confidence, min_odds and
\* max_odds, returns exactly that side's selection.
C3_ReturnsTheOnlySidePassingTheRequest ==
    (engine = "complex" /\ responses # <<>> /\ fault = NoFault /\ Len(request.games) = 2)
        => \A i \in DOMAIN request.games, side \in Sides :
               ( /\ CX_PassesRequestFilters(i, side)
                 /\ \A j \in DOMAIN request.games, other \in Sides :
                        CX_PassesRequestFilters(j, other) => (j = i /\ other = side) )
               => /\ LastResponse.kind = "pick"
                  /\ LastResponse.selection = SelectionLabel(TeamOf(request.games[i], side))

\* C4: every pick MLPredictionEngine.generate_pick returns has a confidence
\* greater than or equal to the request's min_confidence (60.0 by default).
C4_PickMeetsMinConfidence ==
    engine = "ml"
        => \A k \in DOMAIN responses :
               responses[k].kind = "pick"
               => responses[k].confidence >= GivenMinConfidence(ML_min_confidence_threshold)

\* the confidence MLPredictionEngine scores a side of game number i with
ML_ConfidenceOf(i, side) ==
    LET game == request.games[i]
    IN  _make_prediction(process_game_features(game, None, {}), side,
                         OddsGet(game.odds, OddsKey(side))).confidence_score

\* C5: MLPredictionEngine applies the request's thresholds as given, 0
\* included: a candidate passes the odds and confidence filters exactly when
\* min_odds <= odds <= max_odds and confidence >= min_confidence, and the
\* engine defaults (-200, 300, 60.0) apply only when the request gives no value.
C5_ThresholdsAppliedAsGiven ==
    (engine = "ml" /\ responses # <<>> /\ fault = NoFault)
        => \A i \in DOMAIN request.games, side \in Sides :
               LET odds == OddsGet(request.games[i].odds, OddsKey(side))
               IN  odds # 0
                   => ( (\E c \in lastAccepted : c.game = i /\ c.side = side)
                        <=> /\ GivenMinOdds(ML_min_odds_threshold) <= odds
                            /\ odds <= GivenMaxOdds(ML_max_odds_threshold)
                            /\ ML_ConfidenceOf(i, side)
                                   >= GivenMinConfidence(ML_min_confidence_threshold) )

\* C6: _select_best_pick returns, from any non-empty list of viable candidates,
\* a candidate of the list with the greatest expected value, and among the
\* candidates with that expected value one with the greatest confidence.
C6_BestByExpectedValueThenConfidence ==
    (selInput # None /\ selInput[1] # <<>>)
        => /\ selOutput # None
           /\ selOutput[1] \in Range(selInput[1])
           /\ \A o \in Range(selInput[1]) :
                  /\ RatLeq(o.prediction.expected_value, selOutput[1].prediction.expected_value)
                  /\ o.prediction.expected_value = selOutput[1].prediction.expected_value
                         => o.prediction.confidence_score
                                <= selOutput[1].prediction.confidence_score

\* a greatest expected value shared by two candidates of different confidence,
\* and a candidate of lesser expected value but greater confidence
C6_Witness ==
    /\ selInput = Some(<<Candidate("Chiefs", Rat(1, 20), 8000),
                         Candidate("Bills", Rat(1, 10), 6000),
                         Candidate("Lakers", Rat(1, 10), 7000)>>)
    /\ selOutput = Some(Candidate("Lakers", Rat(1, 10), 7000))


\* what the analysis of game number j alone, with no exception, accepts and keeps
AnalysisOfGame(j) ==
    IF engine = "ml"
    THEN LET r == ML_analyze_game(j, request.games[j], request, NoFault)
         IN  [accepted |-> Range(r.accepted), kept |-> Range(r.candidates)]
    ELSE LET r == CX_analyze_with(sports_api, j, request.games[j], NoFault)
         IN  [accepted |-> Range(r.accepted), kept |-> Range(r.analysis)]

\* the response reports one of the candidates the call chose from
IsResponseOfAChoice(response) ==
    /\ response.kind = "pick"
    /\ \E c \in Range(lastChoice) :
           IF engine = "ml" THEN response = _create_response(c)
           ELSE CX_IsResponseOf(c, response)

\* C7: an exception raised while enhancing, featurising or scoring one game
\* (or one side of it) never aborts the batch: every other game of the request
\* is still analysed, and a viable candidate from any of them is still
\* returned by generate_pick.
C7_OneBadGameNeverAbortsTheBatch ==
    (engine \in {"ml", "complex"} /\ responses # <<>> /\ fault # NoFault)
        => \A j \in DOMAIN request.games \ {fault.game} :
               /\ AnalysisOfGame(j).accepted \subseteq lastAccepted
               /\ AnalysisOfGame(j).kept \subseteq Range(lastChoice)
               /\ AnalysisOfGame(j).kept # {} => IsResponseOfAChoice(LastResponse)

\* the analysis of one game is lost to an exception, and the pick comes from
\* the other game of the batch
C7_Witness ==
    /\ engine = "complex" /\ responses # <<>> /\ fault # NoFault
    /\ Len(request.games) = 2
    /\ AnalysisOfGame(fault.game).kept # {}
    /\ \A c \in Range(lastChoice) : c.game # fault.game
    /\ IsResponseOfAChoice(LastResponse)

\* C8: over any sequence of wait_if_needed calls on one limiter, no more than
\* calls_per_minute calls are released within any 60-second window: a call
\* arriving when the budget is exhausted is held until capacity frees up.
C8_NoMoreThanBudgetReleasedPerWindow ==
    Len(released) > CallsPerMinute
        => released[Len(released)] - released[Len(released) - CallsPerMinute] >= 60

\* two outcomes of generate_pick with the same selection, confidence and expected value
SameOutcome(a, b) ==
    /\ a.kind = b.kind
    /\ a.kind = "pick" => /\ a.selection = b.selection
                          /\ a.confidence = b.confidence
                          /\ a.expected_value = b.expected_value

\* C9: calling generate_pick repeatedly on the same engine instance with the
\* same request returns the same selection, confidence and expected value
\* every time: no result depends on state left by an earlier call.
C9_RepeatedCallsAgree ==
    \A i \in DOMAIN responses, j \in DOMAIN responses : SameOutcome(responses[i], responses[j])

\* a second call on an engine whose provider the first call initialised returns a pick
C9_Witness ==
    /\ engine = "complex" /\ sports_api = "SimpleSportsAPI"
    /\ Len(responses) = 2
    /\ responses[2].kind = "pick"

\* the three groups the vector is assembled from, a failed group replaced by its defaults
GroupsOf(input) ==
    [odds |-> IF "odds" \in input.raises
              THEN [primary_odds |-> 0, efficiency |-> RatOne, movement |-> 0]
              ELSE _extract_odds_features(input.game, {}),
     team |-> IF "team" \in input.raises
              THEN _get_default_team_features
              ELSE _calculate_team_features(input.game, input.team_stats, {}),
     context |-> IF "context" \in input.raises
                 THEN _get_default_contextual_features
                 ELSE _extract_contextual_features(input.game, {})]

\* every field is there, and the required ones hold a number
CompleteVector(v) ==
    /\ DOMAIN v = DOMAIN _get_default_feature_vector
    /\ \A f \in {"odds_value", "home_win_rate", "away_win_rate",
                 "recent_form_home", "recent_form_away"} : v[f] \in Int

\* C10: process_game_features never raises and always returns a complete
\* FeatureVector: a feature group that fails is replaced by that group's
\* defaults while the other groups keep their computed values, and when
\* assembling the vector fails the all-default vector is returned.
C10_GroupDefaultsElseAllDefault ==
    feInput # None
        => /\ feOutput # None
           /\ CompleteVector(feOutput[1])
           /\ LET g == GroupsOf(feInput[1])
                  v == feOutput[1]
              IN  IF g.team.home_win_rate = None \/ g.team.away_win_rate = None
                  THEN v = _get_default_feature_vector
                  ELSE /\ v.odds_value = g.odds.primary_odds
                       /\ v.odds_movement = Some(g.odds.movement)
                       /\ v.market_efficiency = Some(g.odds.efficiency)
                       /\ v.home_win_rate = g.team.home_win_rate[1]
                       /\ v.away_win_rate = g.team.away_win_rate[1]
                       /\ v.head_to_head_record = Some(g.team.h2h_record)
                       /\ v.home_offensive_rating = g.team.home_offensive_rating
                       /\ v.home_defensive_rating = g.team.home_defensive_rating
                       /\ v.home_net_rating = g.team.home_net_rating
                       /\ v.away_offensive_rating = g.team.away_offensive_rating
                       /\ v.away_defensive_rating = g.team.away_defensive_rating
                       /\ v.away_net_rating = g.team.away_net_rating
                       /\ v.offensive_matchup_advantage = g.team.offensive_matchup_advantage
                       /\ v.defensive_matchup_advantage = g.team.defensive_matchup_advantage
                       /\ v.pace_differential = g.team.pace_differential
                       /\ v.rest_days_home = Some(g.context.rest_home)
                       /\ v.rest_days_away = Some(g.context.rest_away)
                       /\ v.travel_distance = Some(g.context.travel)
                       /\ v.weather_impact = g.context.weather
                       /\ v.injury_impact = g.context.injury_impact
                       /\ v.motivation_factor = g.context.motivation

\* the odds group fails on a game with weather and team statistics: the odds
\* fields are the defaults, the team and contextual fields are computed
C10_Witness ==
    /\ feInput = Some([game |-> GameSnow, team_stats |-> Some(StatsFull), raises |-> {"odds"}])
    /\ feOutput # None
    /\ feOutput[1].odds_value = 0
    /\ feOutput[1].home_win_rate = 65
    /\ feOutput[1].home_offensive_rating = 11200
    /\ feOutput[1].weather_impact = Some(-30)
    /\ feOutput[1].rest_days_away = Some(2)


\* C11: process_game_features on a Game with venue, weather and injuries all
\* absent and no team stats returns a FeatureVector equal, field by field, to
\* the all-defaults vector.
C11_BareGameGivesDefaultVector ==
    (/\ feInput # None
     /\ feInput[1].game.venue = None
     /\ feInput[1].game.weather = None
     /\ feInput[1].game.injuries = None
     /\ feInput[1].team_stats = None
     /\ feInput[1].raises = {})
        => feOutput = Some(_get_default_feature_vector)


\* C12: every pick returned by generate_pick, by MLPredictionEngine (scored
\* or fallback) and by ComplexPredictionEngine, carries rationale.top_factors
\* with at least 3 entries.
C12_EveryPickNamesThreeFactors ==
    \A k \in DOMAIN responses :
        responses[k].kind = "pick" => Len(responses[k].top_factors) >= 3


\* C13: _calculate_complex_confidence returns a value in [50, 95] for every
\* side, analysis map and odds, including when the computation fails, so
\* every pick returned by ComplexPredictionEngine.generate_pick has
\* 50 <= confidence <= 95.
C13_ConfidenceBetween50And95 ==
    /\ (fnArgs # None /\ fnArgs[1].fn = "_calculate_complex_confidence")
           => (fnResult # None /\ 5000 <= fnResult[1] /\ fnResult[1] <= 9500)
    /\ engine = "complex"
           => \A k \in DOMAIN responses :
                  responses[k].kind = "pick"
                      => 5000 <= responses[k].confidence /\ responses[k].confidence <= 9500

\* the total of the home side is far above 95 and the result is 95
C13_Witness ==
    /\ fnArgs = Some([fn |-> "_calculate_complex_confidence", side |-> "home",
                      analysis |-> Metrics(<<1300, 700>>, <<1300, 700>>, <<100, 0>>,
                                           <<0, 500>>, 0, 400),
                      odds |-> 125, raises |-> FALSE])
    /\ ConfidenceTotal("home", fnArgs[1].analysis, 125) > 9500
    /\ fnResult = Some(9500)


\* C14: _calculate_complex_confidence equals clamp(50 + s*home_advantage
\* + 2*(own offensive rating - opposing defensive rating)/10
\* + 20*form differential + 10*injury differential + 5*weather impact + band,
\* 50, 95), with s = +1 for the home side and -1 for the away side, and
\* band = -5 if |odds| > 200, +5 if odds is in [100, 150], and 0 otherwise.
C14_ConfidenceIsTheClampedSum ==
    (fnArgs # None /\ fnArgs[1].fn = "_calculate_complex_confidence" /\ ~fnArgs[1].raises)
        => LET a == fnArgs[1].analysis
               home == fnArgs[1].side = "home"
               s == IF home THEN 1 ELSE -1
               own_offence == IF home THEN a.home_off_rating ELSE a.away_off_rating
               opposing_defence == IF home THEN a.away_def_rating ELSE a.home_def_rating
               form == IF home THEN a.home_form - a.away_form ELSE a.away_form - a.home_form
               injury == IF home THEN a.away_injury_impact - a.home_injury_impact
                         ELSE a.home_injury_impact - a.away_injury_impact
               odds == fnArgs[1].odds
               band == IF Abs(odds) > 200 THEN -500
                       ELSE IF 100 <= odds /\ odds <= 150 THEN 500 ELSE 0
               sum == 5000 + s * a.home_advantage + 2 * (own_offence - opposing_defence)
                      + 20 * form + injury + 5 * a.weather_impact + band
           IN  fnResult = Some(Max2(5000, Min2(9500, sum)))


\* C20: FeatureEngineer, when both teams' stats are supplied, sets
\* offensive_matchup_advantage = home offensive rating - away defensive
\* rating, defensive_matchup_advantage = away offensive rating - home
\* defensive rating, and pace_differential = |home pace - away pace|.
C20_MatchupAdvantagesAreRatingDifferences ==
    (/\ feInput # None
     /\ feInput[1].team_stats = Some(StatsFull)
     /\ "team" \notin feInput[1].raises)
        => LET home == StatsFull[feInput[1].game.home_team]
               away == StatsFull[feInput[1].game.away_team]
               v == feOutput[1]
           IN  /\ v.offensive_matchup_advantage
                      = 100 * (home.offensive_rating - away.defensive_rating)
               /\ v.defensive_matchup_advantage
                      = 100 * (away.offensive_rating - home.defensive_rating)
               /\ v.pace_differential = 100 * Abs(home.pace - away.pace)


\* C15: _odds_to_probability(o) equals 100/(o+100) for every o > 0 and
\* |o|/(|o|+100) for every o < 0, and for o = 0 it does not raise and
\* returns 0.5.
C15_OddsToProbability ==
    (fnArgs # None /\ fnArgs[1].fn = "_odds_to_probability")
        => LET o == fnArgs[1].odds
           IN  /\ fnResult # None
               /\ o > 0 => fnResult[1] = Rat(100, o + 100)
               /\ o < 0 => fnResult[1] = Rat(Abs(o), Abs(o) + 100)
               /\ o = 0 => fnResult[1] = Rat(1, 2)


C17_HeuristicIgnoresTheSide ==
    (fnArgs # None /\ fnArgs[1].fn = "_heuristic_prediction" /\ Len(fnArgs[1].features) = 16)
        => LET home_win_rate == fnArgs[1].features[4]
               away_win_rate == fnArgs[1].features[5]
           IN  /\ fnResult # None
               /\ fnResult[1].win_prob
                      = Max2(100, Min2(900, 500 + 3 * (home_win_rate - away_win_rate)))
               /\ fnResult[1].confidence = 4000
               /\ fnResult[1].feature_importance = [team_strength |-> 60, odds_value |-> 40]

\* the away side of a game whose home team is the stronger gets the home team's 0.56
C17_Witness ==
    /\ fnArgs = Some([fn |-> "_heuristic_prediction", features |-> FeatureArray(65, 45, "away")])
    /\ fnResult # None
    /\ fnResult[1].win_prob = 560

\* C18: FeatureEngineer._calculate_weighted_form: for every list of recent
\* games (most recent first) the result is the sum over the first min(n, 10)
\* games of 0.9^i * outcome_i * (0.5 + 0.5 * opponent_rating_i / 100), divided
\* by the sum of 0.9^i, where outcome_i is 1 for a win and 0 otherwise; games
\* after the tenth do not change the result, and the empty list gives 0.5.
C18_WeightedFormIsTheDecayedAverage ==
    (fnArgs # None /\ fnArgs[1].fn = "_calculate_weighted_form")
        => LET recent_games == fnArgs[1].recent_games
           IN  /\ fnResult # None
               /\ recent_games = <<>> => fnResult[1] = Rat(1, 2)
               /\ recent_games # <<>> => fnResult[1] = WeightedFormScore(recent_games)
               /\ Len(recent_games) > 10
                      => fnResult[1] = FE_calculate_weighted_form(SubSeq(recent_games, 1, 10))

\* C19: _calculate_advanced_weather_impact for an NFL game subtracts 0.15
\* when temperature < 35, 0.2 when wind speed > 25 and 0.1 when precipitation
\* > 0.1, and clamps the total to [-0.3, 0.3]; for NBA and NHL games it
\* returns 0.0 whatever the weather.
C19_WeatherImpactByLeague ==
    (fnArgs # None /\ fnArgs[1].fn = "_calculate_advanced_weather_impact")
        => LET w == fnArgs[1].weather_data
               league == fnArgs[1].league
               cold == IF w.temperature < 35 THEN -15 ELSE IF w.temperature > 85 THEN -5 ELSE 0
               wind == IF w.wind_speed > 25 THEN -20 ELSE IF w.wind_speed > 15 THEN -10 ELSE 0
               rain == IF w.precipitation > 10 THEN -10 ELSE 0
           IN  /\ fnResult # None
               /\ league = "NFL" => fnResult[1] = Max2(-30, Min2(30, cold + wind + rain))
               /\ league \in {"NBA", "NHL"} => fnResult[1] = 0


\* the positions _calculate_advanced_injury_impact weighs most in a league
HighImportancePositions(league) ==
    IF league = "NFL" THEN {"QB"}
    ELSE IF league = "NBA" THEN {"PG", "SG"}
    ELSE {}

\* C21: _calculate_advanced_injury_impact of a report of one injury to a
\* high-importance position of the league (QB in the NFL, a guard in the NBA)
\* with status Out is strictly more negative than that of the same report
\* with status Probable, and the impact of any report is never below -0.5.
C21_OutWeighsMoreThanProbable ==
    (fnArgs # None /\ fnArgs[1].fn = "_calculate_advanced_injury_impact")
        => LET injuries == fnArgs[1].injuries
               league == fnArgs[1].league
           IN  /\ fnResult # None
               /\ fnResult[1] >= -500
               /\ (/\ ~fnArgs[1].raises
                   /\ Len(injuries) = 1
                   /\ injuries[1].position \in HighImportancePositions(league)
                   /\ injuries[1].status = "Out")
                      => fnResult[1] < _calculate_advanced_injury_impact(
                             <<InjuryText(injuries[1].position, "Probable")>>, league)

\* a quarterback who is out costs -0.375, one who is probable -0.25
C21_Witness ==
    /\ fnArgs = Some([fn |-> "_calculate_advanced_injury_impact", league |-> "NFL", raises |-> FALSE,
                      injuries |-> <<InjuryText("QB", "Out")>>])
    /\ fnResult = Some(-375)
    /\ _calculate_advanced_injury_impact(<<InjuryText("QB", "Probable")>>, "NFL") = -250


\* the body holds a game whose home_ml or away_ml entry is 0 or not a number
HasMalformedOdds(request_data) ==
    \/ request_data.non_numeric \cap DOMAIN request_data.games # {}
    \/ \E i \in DOMAIN request_data.games :
           Some(0) \in {request_data.games[i].odds.home_ml, request_data.games[i].odds.away_ml}

\* C22: a request with a game whose home_ml or away_ml odds entry is zero or
\* not a number is rejected as an input-validation error: do_POST answers
\* 400 without a pick, and neither engine's generate_pick answers it with a
\* pick.
C22_MalformedOddsAreRejected ==
    (fnArgs # None /\ fnArgs[1].fn \in {"do_POST", "generate_pick"}
                   /\ HasMalformedOdds(fnArgs[1].request_data))
        => /\ fnResult # None
           /\ fnArgs[1].fn = "do_POST"
                  => fnResult[1].status = 400 /\ fnResult[1].body.kind = "raised"
           /\ fnArgs[1].fn = "generate_pick" => fnResult[1].kind = "raised"

C24_FallbackIsFirstGamesHomeSide ==
    (fnArgs # None /\ fnArgs[1].fn = "_generate_fallback_pick"
                   /\ fnArgs[1].request_data.games # <<>>)
        => LET game == fnArgs[1].request_data.games[1]
           IN  /\ fnResult # None
               /\ fnResult[1].kind = "pick"
               /\ fnResult[1].selection = SelectionLabel(game.home_team)
               /\ game.odds.home_ml = Some(fnResult[1].odds)
               /\ 5000 <= fnResult[1].confidence /\ fnResult[1].confidence <= 5500
               /\ fnResult[1].model_version = "fallback"


\* C25: get_team_stats, get_injury_report and get_recent_games never raise,
\* whatever the API key, the HTTP outcomes and the payloads are: a request
\* goes to SportsData.io only when an API key is configured, to ESPN only
\* when SportsData.io yielded nothing, and what is returned is the
\* SportsData.io data or else mock data.
C25_ProviderCallsNeverRaise ==
    (fnArgs # None /\ fnArgs[1].fn \in {"get_team_stats", "get_injury_report", "get_recent_games"})
        => LET setup == fnArgs[1].setup
               sportsdata_answered == setup.api_key /\ setup.requests /\ setup.sportsdata = "data"
           IN  /\ fnResult # None
               /\ ~fnResult[1].raised
               /\ "sportsdata" \in fnResult[1].requested => setup.api_key
               /\ "espn" \in fnResult[1].requested => ~sportsdata_answered
               /\ fnResult[1].data = IF sportsdata_answered THEN "sportsdata" ELSE "mock"

\* no key is configured and ESPN times out: the injury report is the mock one
C25_Witness ==
    /\ fnArgs = Some([fn |-> "get_injury_report",
                      setup |-> [api_key |-> FALSE, requests |-> TRUE,
                                 sportsdata |-> "status_500", espn |-> "timeout"]])
    /\ fnResult = Some([raised |-> FALSE, data |-> "mock", requested |-> {}])


\* what _enhance_game_data was called with and what it returned
EnhanceCall == fnArgs # None /\ fnArgs[1].fn = "_enhance_game_data"

\* the call of the provider named by `raises` was made, and raised
ProviderRaised(game, raises) ==
    \/ raises = "odds" /\ NeedsOdds(game)
    \/ raises = "weather" /\ NeedsWeather(game)
    \/ raises = "injuries" /\ NeedsInjuries(game)

\* home_team, away_team, league, start_time and venue are unchanged; odds,
\* weather and injuries the game carries are not replaced; weather is filled
\* only for a game with an outdoor venue
OnlyFillsWhatIsAbsent(game, enhanced) ==
    /\ enhanced.home_team = game.home_team /\ enhanced.away_team = game.away_team
    /\ enhanced.league = game.league /\ enhanced.start_time = game.start_time
    /\ enhanced.venue = game.venue
    /\ ~NeedsOdds(game) => enhanced.odds = game.odds
    /\ game.weather # None => enhanced.weather = game.weather
    /\ ~NeedsInjuries(game) => enhanced.injuries = game.injuries
    /\ enhanced.weather # game.weather => game.venue # None /\ _is_outdoor_venue(game.venue[1])

CallReturnsOrBlocksUntilOldestIsAMinuteOld ==
    (sleeping = None /\ (sleeping' # None \/ call_times' # call_times))
        => LET recent == SelectSeq(call_times, LAMBDA call_time : clock - call_time < 60)
           IN  IF Len(recent) < CallsPerMinute
               THEN /\ sleeping' = None /\ clock' = clock
                    /\ call_times' = Append(recent, clock)
               ELSE /\ sleeping' # None
                    /\ sleeping'[1].until = SeqMin(recent) + 60
                    /\ sleeping'[1].until - clock <= 60
                    /\ call_times' = recent /\ clock' = clock

\* what the next step of a sleeping call must look like
SleeperRecordsOneTimestamp ==
    sleeping # None
        => /\ sleeping' = None
           /\ clock' = sleeping[1].until
           /\ call_times' = Append(call_times, sleeping[1].since)

\* C27: wait_if_needed returns without blocking when fewer than
\* calls_per_minute calls were recorded in the preceding 60 seconds, and
\* otherwise blocks only until the oldest recorded call is 60 seconds old,
\* never longer than 60 seconds; every call eventually returns, and records
\* exactly one timestamp.
C27_EveryCallReturnsWithinAMinute ==
    /\ [][CallReturnsOrBlocksUntilOldestIsAMinuteOld]_vars
    /\ [][SleeperRecordsOneTimestamp]_vars
    /\ (sleeping # None) ~> (sleeping = None)

\* a call that arrived at 30 with the budget used at 0 sleeps until 60
C27_Witness ==
    /\ sleeping = Some([since |-> 30, until |-> 60])
    /\ Len(call_times) = CallsPerMinute


\* C28: _features_to_array returns 16 values in the fixed training order
\* whose last entry is 1.0 for the home side and 0.0 for the away side; the
\* home and away arrays built from the same FeatureVector differ in no other
\* position.
C28_SixteenValuesEndingInHomeIndicator ==
    (fnArgs # None /\ fnArgs[1].fn = "_features_to_array")
        => LET features == fnArgs[1].features
               other == IF fnArgs[1].selection = "home" THEN "away" ELSE "home"
           IN  /\ fnResult # None /\ fnResult[1] # None
               /\ Len(fnResult[1][1]) = 16
               /\ fnResult[1][1][1] = features.odds_value
               /\ fnResult[1][1][4] = features.home_win_rate
               /\ fnResult[1][1][5] = features.away_win_rate
               /\ fnResult[1][1][16] = (IF fnArgs[1].selection = "home" THEN 1 ELSE 0)
               /\ _features_to_array(features, other) # None
               /\ \A k \in 1..15 :
                      _features_to_array(features, other)[1][k] = fnResult[1][1][k]


\* C29: as shipped (no trained model) and with a request whose
\* min_confidence is the default 60, MLPredictionEngine.generate_pick never
\* returns a model-scored pick: every side is rejected on confidence, no
\* candidate is left, and every response carries model_version "fallback" or
\* "emergency".  (The sides are scored 50.0 by the except clause of
\* _make_prediction, the feature array not being built, where the heuristic
\* would score them 40.0; both are below 60.)
C29_DefaultConfidenceNeverYieldsAModelPick ==
    (engine = "ml" /\ request.min_confidence \in {None, Some(6000)})
        => /\ \A k \in DOMAIN responses :
                  /\ responses[k].kind = "pick"
                  /\ responses[k].model_version \in {"fallback", "emergency"}
           /\ responses # <<>>
                  => /\ lastAccepted = {} /\ lastChoice = <<>>
                     /\ \A i \in DOMAIN request.games, side \in Sides :
                            ML_ConfidenceOf(i, side) < 6000

\* the Chiefs game alone, its sides within the odds range, answered by the fallback
C29_Witness ==
    /\ engine = "ml" /\ request.min_confidence = Some(6000) /\ fault = NoFault
    /\ Len(request.games) = 1 /\ request.games[1].home_team = "Chiefs"
    /\ ML_odds_in_range(115, request) /\ ML_odds_in_range(-105, request)
    /\ responses # <<>>
    /\ LastResponse.model_version = "fallback"
    /\ LastResponse.selection = SelectionLabel("Chiefs")


\* C30: ComplexPredictionEngine.generate_pick never returns a pick whose
\* expected value is negative: a side _analyze_pick_option returns, and so the
\* pick of every response, has an expected value, computed from its
\* confidence and odds, of at least 0.
C30_ReturnedSideHasNonNegativeExpectedValue ==
    /\ engine = "complex"
           => \A k \in DOMAIN responses :
                  responses[k].kind = "pick" => responses[k].expected_value >= 0
    /\ (fnArgs # None /\ fnArgs[1].fn = "_analyze_pick_option" /\ fnResult[1] # None)
           => /\ fnResult[1][1].expected_value
                     = CX_calculate_expected_value(fnResult[1][1].odds, fnResult[1][1].confidence)
              /\ fnResult[1][1].expected_value >= 0

====
